---- MODULE Spec2Model ----
(***************************************************************************)
(* TraceLab: the diagnosis rule engine (src/src/diagnosis/rules.cpp), the  *)
(* tool-driven collectors and the run command (src/src/collectors,         *)
(* src/src/commands/run.cpp) and the comparison engine                     *)
(* (src/src/commands/compare.cpp, src/src/qemu.cpp).                       *)
(*                                                                         *)
(* Numbers.  The C++ code works on doubles.  The model keeps every real    *)
(* quantity as an exact rational [n, d] with d > 0 and compares rationals  *)
(* by cross-multiplication.  Durations are carried in milliseconds         *)
(* (wall_time_ms = 1000 * wall_time_sec), so a rate "per second" is        *)
(* count * 1000 / wall_time_ms.  Thresholds written as decimal fractions   *)
(* in the source (0.15, 0.90, ...) are carried in hundredths.              *)
(***************************************************************************)
EXTENDS Integers, Sequences, FiniteSets, TLC

VARIABLES
    workload,       \* WorkloadRunResult: DiagnoseRun's argument, HandleRun's local
    perf,           \* PerfStatResult: DiagnoseRun's argument, HandleRun's local
    strace,         \* StraceSummaryResult: DiagnoseRun's argument, HandleRun's local
    mode,           \* "native" or "qemu"
    result,         \* DiagnosisResult returned by DiagnoseRun
    rule_evidence,  \* result.evidence as it stood just before EnsureMinimumEvidence ran
    pc,             \* "idle" before the call, "done" after DiagnoseRun returned
    run_pc,         \* position of HandleRun ("idle" while it is not running)
    options,        \* HandleRun's parsed options: strict, json_path
    host,           \* what the machine offers: Linux, perf, strace, timeout, a writable path
    capture,        \* what RunCommandCapture delivered to each tool-driven collector
    alive,          \* workload executions of this invocation that are running
    invoked,        \* how many times each collector has been invoked
    sampling,       \* RunWithProcSampling's locals: loop iterations done, saw_proc_status
    outcome,        \* HandleRun's return: returned, code, artifact
    cmp_in,         \* HandleCompare's arguments and the artifact files they name
    cmp_out,        \* HandleCompare's return code, message, figures and caveats
    median_values,  \* Median's argument
    median,         \* Median's return value
    parse_in,       \* the parser called and the text handed to it
    parse_out,      \* what the parser returned
    samp_pc,        \* RunWithProcSampling: where the call stands
    child,          \* RunWithProcSampling: the forked child
    samp_log,       \* RunWithProcSampling: the snapshot reads and exit checks, in order
    samp_locals,    \* RunWithProcSampling: saw_proc_status, wait_status
    samp_result     \* RunWithProcSampling: the WorkloadRunResult being built

diag_vars == <<workload, perf, strace, mode, result, rule_evidence, pc>>

run_vars == <<run_pc, options, host, capture, alive, invoked, sampling, outcome>>

cmp_vars == <<cmp_in, cmp_out>>

med_vars == <<median_values, median>>

parse_vars == <<parse_in, parse_out>>

samp_vars == <<samp_pc, child, samp_log, samp_locals, samp_result>>

vars == <<diag_vars, run_vars, cmp_vars, med_vars, parse_vars, samp_vars>>

(***************************************************************************)
(* Bounds of the model.                                                    *)
(***************************************************************************)
\* Longest strace entries list handed to the engine.
MaxEntries == 2

(***************************************************************************)
(* Rationals.                                                              *)
(***************************************************************************)
Rat(n, d) == [n |-> n, d |-> d]

Zero == Rat(0, 1)

\* r >= tn/td, for r.d > 0 and td > 0
RatGeq(r, tn, td) == r.n * td >= tn * r.d

\* r <= tn/td
RatLeq(r, tn, td) == r.n * td <= tn * r.d

\* r < tn/td
RatLt(r, tn, td) == r.n * td < tn * r.d

\* r > tn/td
RatGt(r, tn, td) == r.n * td > tn * r.d

RECURSIVE Pow10(_)
Pow10(k) == IF k = 0 THEN 1 ELSE 10 * Pow10(k - 1)

(***************************************************************************)
(* Thresholds of the rule cascade (hundredths where the source has a       *)
(* fraction, milliseconds where it has seconds).                           *)
(***************************************************************************)
RssMinMb == 512
PageFaultRateMin == 500
SwitchRateMin == 5000
PageFaultRateHigh == 2000
KbPerMb == 1024
SyscallShareMinPct == 15
IoShareMinPct == 60
IoSyscallShareHighPct == 30
IoShareHighPct == 75
SyscallShareHighPct == 35
IpcMinPct == 90
CpuSyscallShareMaxPct == 10
CacheMissRateMaxPct == 5
IpcHighPct == 120
CpuSyscallShareHighMaxPct == 5
ShortRunMs == 50

(***************************************************************************)
(* Strings of the source.                                                  *)
(***************************************************************************)
QemuLimitation ==
    "Perf counters captured under QEMU emulation; compare primarily by wall time and throughput."
PerfLimitationPrefix == "perf collector not fully usable: "
StraceLimitationPrefix == "strace collector not fully usable: "
ProcLimitationPrefix == "proc status sampler not fully usable: "
ShortRunLimitation == "Workload completed in under 50ms; startup noise may dominate."
NoRuleLimitation ==
    "No rule crossed confidence thresholds for CPU, syscall, I/O, or memory pressure."

(***************************************************************************)
(* Default-constructed values (the structs' member initialisers).          *)
(***************************************************************************)
DefaultCollectorStatus == [status |-> "", reason |-> ""]

DefaultPerfStatData ==
    [has_cycles |-> FALSE, cycles |-> 0,
     has_instructions |-> FALSE, instructions |-> 0,
     has_branches |-> FALSE, branches |-> 0,
     has_branch_misses |-> FALSE, branch_misses |-> 0,
     has_cache_misses |-> FALSE, cache_misses |-> 0,
     has_page_faults |-> FALSE, page_faults |-> 0]

DefaultPerfStatResult ==
    [status |-> DefaultCollectorStatus, command_exit_code |-> -1,
     timed_out |-> FALSE, data |-> DefaultPerfStatData]

DefaultStraceSummaryData ==
    [entries |-> <<>>, total_time_ms |-> 0, has_total_time |-> FALSE]

DefaultStraceSummaryResult ==
    [status |-> DefaultCollectorStatus, command_exit_code |-> -1,
     timed_out |-> FALSE, data |-> DefaultStraceSummaryData]

DefaultProcStatusSample ==
    [has_max_rss_kb |-> FALSE, max_rss_kb |-> 0,
     has_voluntary_ctxt_switches |-> FALSE, voluntary_ctxt_switches |-> 0,
     has_nonvoluntary_ctxt_switches |-> FALSE, nonvoluntary_ctxt_switches |-> 0]

DefaultWorkloadRunResult ==
    [exit_code |-> -1, exit_classification |-> "unknown", wall_time_ms |-> 0,
     proc_sample |-> DefaultProcStatusSample,
     proc_collector_status |-> DefaultCollectorStatus]

DefaultDiagnosisResult ==
    [label |-> "inconclusive", confidence |-> "low",
     evidence |-> <<>>, limitations |-> <<>>]

(***************************************************************************)
(* Helpers of rules.cpp.                                                   *)
(***************************************************************************)
\* ToLower on the syscall names the model uses: ASCII upper-case letters are
\* replaced by their lower-case letters, every other name is unchanged.
ToLower(name) ==
    CASE name = "READ" -> "read"
      [] name = "OpenAt" -> "openat"
      [] OTHER -> name

IoSyscallNames ==
    {"read", "write", "pread64", "pwrite64", "preadv", "pwritev", "readv", "writev",
     "open", "openat", "close", "fsync", "fdatasync", "stat", "fstat", "lstat",
     "newfstatat", "getdents", "getdents64"}

IsIoSyscall(name) == ToLower(name) \in IoSyscallNames

\* std::fixed << std::setprecision(precision): the value rounded to `precision`
\* decimals, kept as the integer value * 10^precision.
FormatNumber(value, precision) ==
    [scaled |-> (2 * value.n * Pow10(precision) + value.d) \div (2 * value.d),
     precision |-> precision]

\* An evidence value: `text` followed by the formatted number (precision -1: no number).
NumberValue(value, precision) == [text |-> "", number |-> FormatNumber(value, precision)]

TextValue(text) == [text |-> text, number |-> [scaled |-> 0, precision |-> -1]]

Evidence(metric, value, detail) == [metric |-> metric, value |-> value, detail |-> detail]

AddUniqueLimitation(limitations, text) ==
    IF \E i \in 1..Len(limitations) : limitations[i] = text
    THEN limitations
    ELSE Append(limitations, text)

RECURSIVE IoTimeMs(_)
\* io_time_sec of ComputeDerived: the sum of max(0, time) over the I/O entries.
IoTimeMs(entries) ==
    IF entries = <<>> THEN 0
    ELSE LET e == Head(entries)
         IN (IF IsIoSyscall(e.name) THEN (IF e.time_ms > 0 THEN e.time_ms ELSE 0) ELSE 0)
            + IoTimeMs(Tail(entries))

\* Mutant: syscall_share is derived whatever the status of the strace collector.
ComputeDerived_ShareOfAnyStrace(w, p, s) ==
    LET has_ipc == p.status.status = "ok" /\ p.data.has_cycles /\ p.data.cycles > 0
                   /\ p.data.has_instructions
        has_cache_miss_rate == p.status.status = "ok" /\ p.data.has_cache_misses
                               /\ p.data.has_instructions /\ p.data.instructions > 0
        has_syscall_share == s.data.has_total_time /\ w.wall_time_ms > 0
        has_io_share == s.data.entries # <<>> /\ s.data.has_total_time
                        /\ s.data.total_time_ms > 0
        has_page_fault_rate == p.status.status = "ok" /\ p.data.has_page_faults
                               /\ w.wall_time_ms > 0
        has_voluntary_switch_rate == w.proc_sample.has_voluntary_ctxt_switches
                                     /\ w.wall_time_ms > 0
        has_max_rss_mb == w.proc_sample.has_max_rss_kb
    IN  [has_ipc |-> has_ipc,
         ipc |-> IF has_ipc THEN Rat(p.data.instructions, p.data.cycles) ELSE Zero,
         has_cache_miss_rate |-> has_cache_miss_rate,
         cache_miss_rate |-> IF has_cache_miss_rate
                             THEN Rat(p.data.cache_misses, p.data.instructions) ELSE Zero,
         has_syscall_share |-> has_syscall_share,
         syscall_share |-> IF has_syscall_share
                           THEN Rat(s.data.total_time_ms, w.wall_time_ms) ELSE Zero,
         has_io_share |-> has_io_share,
         io_share |-> IF has_io_share
                      THEN Rat(IoTimeMs(s.data.entries), s.data.total_time_ms) ELSE Zero,
         has_top_syscall_share |-> has_io_share,
         top_syscall_share |-> IF has_io_share
                               THEN Rat(Head(s.data.entries).time_ms, s.data.total_time_ms)
                               ELSE Zero,
         top_syscall_name |-> IF has_io_share THEN Head(s.data.entries).name ELSE "",
         top_syscall_time_sec |-> IF has_io_share
                                  THEN Rat(Head(s.data.entries).time_ms, 1000) ELSE Zero,
         has_page_fault_rate |-> has_page_fault_rate,
         page_fault_rate |-> IF has_page_fault_rate
                             THEN Rat(p.data.page_faults * 1000, w.wall_time_ms) ELSE Zero,
         has_voluntary_switch_rate |-> has_voluntary_switch_rate,
         voluntary_switch_rate |->
             IF has_voluntary_switch_rate
             THEN Rat(w.proc_sample.voluntary_ctxt_switches * 1000, w.wall_time_ms)
             ELSE Zero,
         has_max_rss_mb |-> has_max_rss_mb,
         max_rss_mb |-> IF has_max_rss_mb
                        THEN Rat(w.proc_sample.max_rss_kb, KbPerMb) ELSE Zero]

ComputeDerived(w, p, s) ==
    LET has_ipc == p.status.status = "ok" /\ p.data.has_cycles /\ p.data.cycles > 0
                   /\ p.data.has_instructions
        has_cache_miss_rate == p.status.status = "ok" /\ p.data.has_cache_misses
                               /\ p.data.has_instructions /\ p.data.instructions > 0
        has_syscall_share == s.status.status = "ok" /\ s.data.has_total_time
                             /\ w.wall_time_ms > 0
        has_io_share == s.data.entries # <<>> /\ s.data.has_total_time
                        /\ s.data.total_time_ms > 0
        has_page_fault_rate == p.status.status = "ok" /\ p.data.has_page_faults
                               /\ w.wall_time_ms > 0
        has_voluntary_switch_rate == w.proc_sample.has_voluntary_ctxt_switches
                                     /\ w.wall_time_ms > 0
        has_max_rss_mb == w.proc_sample.has_max_rss_kb
    IN  [has_ipc |-> has_ipc,
         ipc |-> IF has_ipc THEN Rat(p.data.instructions, p.data.cycles) ELSE Zero,
         has_cache_miss_rate |-> has_cache_miss_rate,
         cache_miss_rate |-> IF has_cache_miss_rate
                             THEN Rat(p.data.cache_misses, p.data.instructions) ELSE Zero,
         has_syscall_share |-> has_syscall_share,
         syscall_share |-> IF has_syscall_share
                           THEN Rat(s.data.total_time_ms, w.wall_time_ms) ELSE Zero,
         has_io_share |-> has_io_share,
         io_share |-> IF has_io_share
                      THEN Rat(IoTimeMs(s.data.entries), s.data.total_time_ms) ELSE Zero,
         has_top_syscall_share |-> has_io_share,
         top_syscall_share |-> IF has_io_share
                               THEN Rat(Head(s.data.entries).time_ms, s.data.total_time_ms)
                               ELSE Zero,
         top_syscall_name |-> IF has_io_share THEN Head(s.data.entries).name ELSE "",
         top_syscall_time_sec |-> IF has_io_share
                                  THEN Rat(Head(s.data.entries).time_ms, 1000) ELSE Zero,
         has_page_fault_rate |-> has_page_fault_rate,
         page_fault_rate |-> IF has_page_fault_rate
                             THEN Rat(p.data.page_faults * 1000, w.wall_time_ms) ELSE Zero,
         has_voluntary_switch_rate |-> has_voluntary_switch_rate,
         voluntary_switch_rate |->
             IF has_voluntary_switch_rate
             THEN Rat(w.proc_sample.voluntary_ctxt_switches * 1000, w.wall_time_ms)
             ELSE Zero,
         has_max_rss_mb |-> has_max_rss_mb,
         max_rss_mb |-> IF has_max_rss_mb
                        THEN Rat(w.proc_sample.max_rss_kb, KbPerMb) ELSE Zero]

\* Mutant: the caveat always quotes the reason, even when it is empty.
ReasonOrStatus_ReasonOnly(st) == st.reason

\* reason.empty() ? status : reason
ReasonOrStatus(st) == IF st.reason = "" THEN st.status ELSE st.reason

PopulateLimitations(w, p, s, m, limitations) ==
    LET l1 == IF m = "qemu" THEN AddUniqueLimitation(limitations, QemuLimitation)
              ELSE limitations
        l2 == IF p.status.status # "ok"
              THEN AddUniqueLimitation(l1, PerfLimitationPrefix \o ReasonOrStatus(p.status))
              ELSE l1
        l3 == IF s.status.status # "ok"
              THEN AddUniqueLimitation(l2, StraceLimitationPrefix \o ReasonOrStatus(s.status))
              ELSE l2
        l4 == IF w.proc_collector_status.status # "ok"
              THEN AddUniqueLimitation(
                       l3, ProcLimitationPrefix \o ReasonOrStatus(w.proc_collector_status))
              ELSE l3
    IN  IF w.wall_time_ms > 0 /\ w.wall_time_ms < ShortRunMs
        THEN AddUniqueLimitation(l4, ShortRunLimitation)
        ELSE l4

\* The push_unique lambda of EnsureMinimumEvidence.
PushUnique(evidence, item) ==
    IF \E i \in 1..Len(evidence) : evidence[i].metric = item.metric
    THEN evidence
    ELSE Append(evidence, item)

WallTimeEvidence(w) ==
    Evidence("wall_time_sec", NumberValue(Rat(w.wall_time_ms, 1000), 6),
             "Elapsed runtime from fallback timer.")

\* Mutant: the early return accepts a single entry (size() >= 1).
EnsureMinimumEvidence_OneIsEnough(w, p, s, evidence) ==
    IF Len(evidence) >= 1 THEN evidence
    ELSE PushUnique(
             PushUnique(evidence, WallTimeEvidence(w)),
             Evidence("collector_statuses",
                      TextValue("perf=" \o p.status.status \o ", strace=" \o s.status.status
                                \o ", proc=" \o w.proc_collector_status.status),
                      "Collector availability influences diagnosis confidence."))

EnsureMinimumEvidence(w, p, s, evidence) ==
    IF Len(evidence) >= 2 THEN evidence
    ELSE PushUnique(
             PushUnique(evidence, WallTimeEvidence(w)),
             Evidence("collector_statuses",
                      TextValue("perf=" \o p.status.status \o ", strace=" \o s.status.status
                                \o ", proc=" \o w.proc_collector_status.status),
                      "Collector availability influences diagnosis confidence."))

(***************************************************************************)
(* The rule cascade of DiagnoseRun: guards, confidences and evidence.      *)
(***************************************************************************)
\* Mutant: both rates are required (&& in place of ||).
MemoryPressureGuard_BothRates(d) ==
    /\ d.has_max_rss_mb
    /\ RatGeq(d.max_rss_mb, RssMinMb, 1)
    /\ d.has_page_fault_rate /\ RatGeq(d.page_fault_rate, PageFaultRateMin, 1)
    /\ d.has_voluntary_switch_rate /\ RatGeq(d.voluntary_switch_rate, SwitchRateMin, 1)

MemoryPressureGuard(d) ==
    /\ d.has_max_rss_mb
    /\ RatGeq(d.max_rss_mb, RssMinMb, 1)
    /\ \/ d.has_page_fault_rate /\ RatGeq(d.page_fault_rate, PageFaultRateMin, 1)
       \/ d.has_voluntary_switch_rate /\ RatGeq(d.voluntary_switch_rate, SwitchRateMin, 1)

MemoryPressureConfidence(d) ==
    IF d.has_page_fault_rate /\ RatGeq(d.page_fault_rate, PageFaultRateHigh, 1)
    THEN "high" ELSE "medium"

\* Mutant: the max_rss_mb entry is not pushed.
MemoryPressureEvidence_NoRss(d) ==
    LET e2 == IF d.has_page_fault_rate
              THEN <<Evidence("page_faults_per_sec", NumberValue(d.page_fault_rate, 1),
                              "Page fault activity is elevated for this runtime.")>>
              ELSE <<>>
    IN  IF d.has_voluntary_switch_rate
        THEN Append(e2, Evidence("voluntary_ctx_switches_per_sec",
                                 NumberValue(d.voluntary_switch_rate, 1),
                                 "High switching can indicate stalls around memory activity."))
        ELSE e2

MemoryPressureEvidence(d) ==
    LET e1 == <<Evidence("max_rss_mb", NumberValue(d.max_rss_mb, 1),
                         "Peak RSS sampled from /proc/<pid>/status.")>>
        e2 == IF d.has_page_fault_rate
              THEN Append(e1, Evidence("page_faults_per_sec", NumberValue(d.page_fault_rate, 1),
                                       "Page fault activity is elevated for this runtime."))
              ELSE e1
    IN  IF d.has_voluntary_switch_rate
        THEN Append(e2, Evidence("voluntary_ctx_switches_per_sec",
                                 NumberValue(d.voluntary_switch_rate, 1),
                                 "High switching can indicate stalls around memory activity."))
        ELSE e2

IoBoundGuard(d) ==
    /\ d.has_syscall_share
    /\ d.has_io_share
    /\ RatGeq(d.syscall_share, SyscallShareMinPct, 100)
    /\ RatGeq(d.io_share, IoShareMinPct, 100)

\* Mutant: either high threshold suffices (|| in place of &&).
IoBoundConfidence_Either(d) ==
    IF RatGeq(d.syscall_share, IoSyscallShareHighPct, 100)
       \/ RatGeq(d.io_share, IoShareHighPct, 100)
    THEN "high" ELSE "medium"

IoBoundConfidence(d) ==
    IF RatGeq(d.syscall_share, IoSyscallShareHighPct, 100)
       /\ RatGeq(d.io_share, IoShareHighPct, 100)
    THEN "high" ELSE "medium"

TopSyscallEvidence(d) ==
    Evidence("top_syscall",
             [text |-> d.top_syscall_name, number |-> FormatNumber(d.top_syscall_time_sec, 6)],
             "Most expensive syscall entry in strace summary.")

IoBoundEvidence(d) ==
    LET e2 == <<Evidence("syscall_time_share", NumberValue(d.syscall_share, 3),
                         "Share of wall time spent inside syscalls."),
                Evidence("io_syscall_share", NumberValue(d.io_share, 3),
                         "I/O-related syscalls dominate syscall time.")>>
    IN  IF d.has_top_syscall_share THEN Append(e2, TopSyscallEvidence(d)) ELSE e2

SyscallHeavyGuard(d) ==
    d.has_syscall_share /\ RatGeq(d.syscall_share, SyscallShareMinPct, 100)

\* Mutant: the io-bound rule's 0.30 threshold is used in place of 0.35.
SyscallHeavyConfidence_IoThreshold(d) ==
    IF RatGeq(d.syscall_share, IoSyscallShareHighPct, 100) THEN "high" ELSE "medium"

SyscallHeavyConfidence(d) ==
    IF RatGeq(d.syscall_share, SyscallShareHighPct, 100) THEN "high" ELSE "medium"

SyscallHeavyEvidence(d) ==
    LET e1 == <<Evidence("syscall_time_share", NumberValue(d.syscall_share, 3),
                         "Share of wall time spent inside syscalls.")>>
    IN  IF d.has_top_syscall_share
        THEN e1 \o <<Evidence("top_syscall_share", NumberValue(d.top_syscall_share, 3),
                              "Top syscall concentration within strace summary."),
                     TopSyscallEvidence(d)>>
        ELSE e1

\* Mutant: the cache-miss condition is missing from the guard.
CpuBoundGuard_NoCacheCheck(d) ==
    /\ d.has_ipc
    /\ RatGeq(d.ipc, IpcMinPct, 100)
    /\ (~d.has_syscall_share \/ RatLeq(d.syscall_share, CpuSyscallShareMaxPct, 100))

\* Mutant: cpu-bound admits every syscall share below the syscall-heavy bound.
CpuBoundGuard_UpToSyscallHeavy(d) ==
    /\ d.has_ipc
    /\ RatGeq(d.ipc, IpcMinPct, 100)
    /\ (~d.has_syscall_share \/ RatLt(d.syscall_share, SyscallShareMinPct, 100))
    /\ (~d.has_cache_miss_rate \/ RatLeq(d.cache_miss_rate, CacheMissRateMaxPct, 100))

CpuBoundGuard(d) ==
    /\ d.has_ipc
    /\ RatGeq(d.ipc, IpcMinPct, 100)
    /\ (~d.has_syscall_share \/ RatLeq(d.syscall_share, CpuSyscallShareMaxPct, 100))
    /\ (~d.has_cache_miss_rate \/ RatLeq(d.cache_miss_rate, CacheMissRateMaxPct, 100))

CpuBoundConfidence(d) ==
    IF RatGeq(d.ipc, IpcHighPct, 100)
       /\ (~d.has_syscall_share \/ RatLeq(d.syscall_share, CpuSyscallShareHighMaxPct, 100))
    THEN "high" ELSE "medium"

CpuBoundEvidence(d) ==
    LET e1 == <<Evidence("ipc", NumberValue(d.ipc, 3),
                         "Instructions per cycle from perf counters.")>>
        e2 == IF d.has_syscall_share
              THEN Append(e1, Evidence("syscall_time_share", NumberValue(d.syscall_share, 3),
                                       "Low syscall share suggests compute-heavy execution."))
              ELSE e1
    IN  IF d.has_cache_miss_rate
        THEN Append(e2, Evidence("cache_miss_per_instruction",
                                 NumberValue(d.cache_miss_rate, 6),
                                 "Cache-miss density from perf counters."))
        ELSE e2

\* Mutant: the exit_code entry is not pushed.
InconclusiveEvidence_NoExitCode(w) == <<WallTimeEvidence(w)>>

InconclusiveEvidence(w) ==
    <<WallTimeEvidence(w),
      Evidence("exit_code", NumberValue(Rat(w.exit_code, 1), 0),
               "Non-zero exit or limited telemetry can prevent clear attribution.")>>

\* Mutant: the io-bound branch is tried before the memory-pressure branch.
ApplyRules_IoFirst(w, d, limitations) ==
    IF IoBoundGuard(d)
    THEN [label |-> "io-bound", confidence |-> IoBoundConfidence(d),
          evidence |-> IoBoundEvidence(d), limitations |-> limitations]
    ELSE IF MemoryPressureGuard(d)
    THEN [label |-> "memory-pressure", confidence |-> MemoryPressureConfidence(d),
          evidence |-> MemoryPressureEvidence(d), limitations |-> limitations]
    ELSE IF SyscallHeavyGuard(d)
    THEN [label |-> "syscall-heavy", confidence |-> SyscallHeavyConfidence(d),
          evidence |-> SyscallHeavyEvidence(d), limitations |-> limitations]
    ELSE IF CpuBoundGuard(d)
    THEN [label |-> "cpu-bound", confidence |-> CpuBoundConfidence(d),
          evidence |-> CpuBoundEvidence(d), limitations |-> limitations]
    ELSE [label |-> "inconclusive", confidence |-> "low",
          evidence |-> InconclusiveEvidence(w),
          limitations |-> AddUniqueLimitation(limitations, NoRuleLimitation)]

\* The if / else-if chain of DiagnoseRun, up to (not including) EnsureMinimumEvidence.
ApplyRules(w, d, limitations) ==
    IF MemoryPressureGuard(d)
    THEN [label |-> "memory-pressure", confidence |-> MemoryPressureConfidence(d),
          evidence |-> MemoryPressureEvidence(d), limitations |-> limitations]
    ELSE IF IoBoundGuard(d)
    THEN [label |-> "io-bound", confidence |-> IoBoundConfidence(d),
          evidence |-> IoBoundEvidence(d), limitations |-> limitations]
    ELSE IF SyscallHeavyGuard(d)
    THEN [label |-> "syscall-heavy", confidence |-> SyscallHeavyConfidence(d),
          evidence |-> SyscallHeavyEvidence(d), limitations |-> limitations]
    ELSE IF CpuBoundGuard(d)
    THEN [label |-> "cpu-bound", confidence |-> CpuBoundConfidence(d),
          evidence |-> CpuBoundEvidence(d), limitations |-> limitations]
    ELSE [label |-> "inconclusive", confidence |-> "low",
          evidence |-> InconclusiveEvidence(w),
          limitations |-> AddUniqueLimitation(limitations, NoRuleLimitation)]

\* The verdict as it stands when DiagnoseRun reaches EnsureMinimumEvidence.
RuleVerdict(w, p, s, m) ==
    ApplyRules(w, ComputeDerived(w, p, s),
               PopulateLimitations(w, p, s, m, DefaultDiagnosisResult.limitations))

DiagnoseRun(w, p, s, m) ==
    LET r == RuleVerdict(w, p, s, m)
    IN  [r EXCEPT !.evidence = EnsureMinimumEvidence(w, p, s, r.evidence)]

(***************************************************************************)
(* The inputs DiagnoseRun is called with.                                  *)
(*                                                                         *)
(* Two families of calls.  "data": every collector reports ok, the run     *)
(* took one second and the counters, the syscall summary and the process   *)
(* sample range over values on both sides of every threshold of the        *)
(* cascade, zero denominators included.  "status": the three               *)
(* collector statuses, their reasons, the mode, the exit code and the wall *)
(* time range freely over a few data profiles, among them profiles that    *)
(* carry data although the collector's status is not ok (a timed-out       *)
(* collector keeps what its parser read; a failed wait keeps the samples   *)
(* taken before it).                                                       *)
(***************************************************************************)
Modes == {"native", "qemu"}

OkStatus == [status |-> "ok", reason |-> ""]

CollectorStatuses ==
    {OkStatus,
     [status |-> "error", reason |-> ""],
     [status |-> "error", reason |-> "collector timed out"],
     [status |-> "unavailable", reason |-> "not found in PATH"]}

\* An optional counter: <<FALSE, 0>> when absent, <<TRUE, v>> when present.
Optional(values) == {<<FALSE, 0>>} \cup {<<TRUE, v>> : v \in values}

PerfData(cycles, instructions, cache_misses, page_faults) ==
    [DefaultPerfStatData EXCEPT
        !.has_cycles = cycles[1], !.cycles = cycles[2],
        !.has_instructions = instructions[1], !.instructions = instructions[2],
        !.has_cache_misses = cache_misses[1], !.cache_misses = cache_misses[2],
        !.has_page_faults = page_faults[1], !.page_faults = page_faults[2]]

PerfResult(status, data) ==
    [DefaultPerfStatResult EXCEPT !.status = status, !.data = data,
                                  !.command_exit_code = 0]

ProcSample(rss, vol) ==
    [DefaultProcStatusSample EXCEPT
        !.has_max_rss_kb = rss[1], !.max_rss_kb = rss[2],
        !.has_voluntary_ctxt_switches = vol[1], !.voluntary_ctxt_switches = vol[2]]

Workload(exit_code, wall_ms, sample, status) ==
    [DefaultWorkloadRunResult EXCEPT
        !.exit_code = exit_code, !.exit_classification = "exit_code",
        !.wall_time_ms = wall_ms, !.proc_sample = sample,
        !.proc_collector_status = status]

Entry(name, time_ms) == [name |-> name, calls |-> 1, time_ms |-> time_ms, errors |-> 0]

EntryPool == {Entry("READ", 300), Entry("futex", 100), Entry("OpenAt", -50)}

\* A summary has one row per syscall name.
EntryLists ==
    {e \in UNION {[1..n -> EntryPool] : n \in 0..MaxEntries} :
        \A i, j \in 1..Len(e) : i # j => e[i].name # e[j].name}

StraceData(total, entries) ==
    [entries |-> entries, has_total_time |-> total[1], total_time_ms |-> total[2]]

StraceResult(status, data) ==
    [DefaultStraceSummaryResult EXCEPT !.status = status, !.data = data,
                                      !.command_exit_code = 0]

DataPerfDatas ==
    {PerfData(c, i, m, f) :
        c \in Optional({0, 1000}), i \in Optional({0, 900, 1200}),
        m \in Optional({45, 100}), f \in Optional({499, 500, 2000})}

DataStraceDatas ==
    {StraceData(t, e) :
        t \in Optional({0, 40, 80, 120, 150, 320, 400, 500}), e \in EntryLists}

DataProcSamples ==
    {ProcSample(r, v) :
        r \in Optional({524287, 524288}), v \in Optional({100, 5000})}

StatusPerfDatas ==
    {DefaultPerfStatData,
     PerfData(<<TRUE, 1000>>, <<TRUE, 1200>>, <<TRUE, 45>>, <<TRUE, 2000>>)}

StatusStraceDatas ==
    {DefaultStraceSummaryData,
     StraceData(<<TRUE, 400>>, <<Entry("READ", 300)>>),
     StraceData(<<TRUE, 40>>, <<Entry("futex", 100)>>)}

StatusProcSamples ==
    {DefaultProcStatusSample, ProcSample(<<TRUE, 524288>>, <<TRUE, 5000>>)}

Families == {"data", "status"}

WorkloadsOf(family) ==
    IF family = "data"
    THEN {Workload(0, 1000, ps, OkStatus) : ps \in DataProcSamples}
    ELSE {Workload(x, t, ps, st) :
            x \in {0, 1}, t \in {0, 20, 1000}, ps \in StatusProcSamples,
            st \in CollectorStatuses}

PerfsOf(family) ==
    IF family = "data"
    THEN {PerfResult(OkStatus, pd) : pd \in DataPerfDatas}
    ELSE {PerfResult(st, pd) : st \in CollectorStatuses, pd \in StatusPerfDatas}

StracesOf(family) ==
    IF family = "data"
    THEN {StraceResult(OkStatus, sd) : sd \in DataStraceDatas}
    ELSE {StraceResult(st, sd) : st \in CollectorStatuses, sd \in StatusStraceDatas}

ModesOf(family) == IF family = "data" THEN {"native"} ELSE Modes

(***************************************************************************)
(* The parsers, line by line.  A line of captured output is carried as     *)
(* what the tokenizer (SplitCsv / SplitWhitespace) and the numeric         *)
(* conversions make of it: the number of fields, the outcome of each       *)
(* numeric conversion as an optional value, and the name field.            *)
(***************************************************************************)
MinCsvFields == 3
MinSummaryTokens == 5
ErrorsColumnTokens == 6

PerfEvents ==
    {"cycles", "instructions", "branches", "branch-misses", "cache-misses", "page-faults"}

\* One line of `perf stat -x,` output: value is ParseNumericCounter(Trim(fields[0])).
PerfLine(fields, value, event) == [fields |-> fields, value |-> value, event |-> event]

SetCounter(data, event, v) ==
    CASE event = "cycles" -> [data EXCEPT !.cycles = v, !.has_cycles = TRUE]
      [] event = "instructions" -> [data EXCEPT !.instructions = v, !.has_instructions = TRUE]
      [] event = "branches" -> [data EXCEPT !.branches = v, !.has_branches = TRUE]
      [] event = "branch-misses" -> [data EXCEPT !.branch_misses = v, !.has_branch_misses = TRUE]
      [] event = "cache-misses" -> [data EXCEPT !.cache_misses = v, !.has_cache_misses = TRUE]
      [] event = "page-faults" -> [data EXCEPT !.page_faults = v, !.has_page_faults = TRUE]
      [] OTHER -> data

RECURSIVE ParsePerfStatCsvOutput(_, _)
\* Returns parsed_any together with *data as the loop leaves it.
ParsePerfStatCsvOutput(text, data) ==
    IF text = <<>> THEN [parsed_any |-> FALSE, data |-> data]
    ELSE LET line == Head(text)
             accepted == /\ line.fields >= MinCsvFields
                         /\ line.value[1]
                         /\ line.event \in PerfEvents
             rest == ParsePerfStatCsvOutput(
                         Tail(text),
                         IF accepted THEN SetCounter(data, line.event, line.value[2]) ELSE data)
         IN  [parsed_any |-> accepted \/ rest.parsed_any, data |-> rest.data]

\* One line of `strace -c` output: seconds is ParseDouble(tokens[1]) in
\* milliseconds, calls is ParseLongLong(tokens[3]), errors is
\* ParseLongLong(tokens[4]), name is tokens.back(); skipped marks an empty
\* line, the "% time" header and the "------" rules.
SummaryLine(skipped, tokens, seconds, calls, errors, name) ==
    [skipped |-> skipped, tokens |-> tokens, seconds |-> seconds,
     calls |-> calls, errors |-> errors, name |-> name]

RECURSIVE ParseStraceSummaryOutput(_, _)
ParseStraceSummaryOutput(text, data) ==
    IF text = <<>> THEN [parsed_any |-> FALSE, data |-> data]
    ELSE LET line == Head(text)
             readable == /\ ~line.skipped
                         /\ line.tokens >= MinSummaryTokens
                         /\ line.seconds[1]
             is_total == readable /\ line.name = "total"
             is_entry == readable /\ line.name # "total" /\ line.calls[1]
             entry == [name |-> line.name, calls |-> line.calls[2],
                       time_ms |-> line.seconds[2],
                       errors |-> IF line.tokens >= ErrorsColumnTokens /\ line.errors[1]
                                  THEN line.errors[2] ELSE 0]
             next == IF is_total
                     THEN [data EXCEPT !.total_time_ms = line.seconds[2],
                                       !.has_total_time = TRUE]
                     ELSE IF is_entry
                     THEN [data EXCEPT !.entries = Append(@, entry)]
                     ELSE data
             rest == ParseStraceSummaryOutput(Tail(text), next)
         IN  [parsed_any |-> is_total \/ is_entry \/ rest.parsed_any, data |-> rest.data]

(***************************************************************************)
(* The tool-driven collectors.                                             *)
(*                                                                         *)
(* h is the machine (h.linux: a Linux build; h.has_perf, h.has_strace,     *)
(* h.has_timeout: CommandExists of the tool), run is the CommandResult     *)
(* RunCommandCapture delivers for the wrapped command line.                *)
(***************************************************************************)
TimeoutExitCode == 124
SignalExitBase == 128
SigKill == 9

\* DecodeProcessStatus of a command ended by SIGKILL.
KilledExitCode == SignalExitBase + SigKill

CanTimeout(timeout_sec, h) == timeout_sec > 0 /\ h.has_timeout

\* The if / else-if chain both collectors end with.
CollectorStatusOf(tool, what_is_missing, timed_out, parsed, exit_code) ==
    IF timed_out THEN [status |-> "error", reason |-> tool \o " collector timed out"]
    ELSE IF parsed THEN [status |-> "ok", reason |-> ""]
    ELSE IF exit_code = 0
    THEN [status |-> "error", reason |-> tool \o " output missing expected " \o what_is_missing]
    ELSE [status |-> "error",
          reason |-> tool \o " command failed with exit code " \o ToString(exit_code)]

CollectPerfStat(command, timeout_sec, h, run) ==
    IF ~h.linux
    THEN [DefaultPerfStatResult EXCEPT
            !.status = [status |-> "unavailable", reason |-> "perf collector is Linux-only"]]
    ELSE IF command = <<>>
    THEN [DefaultPerfStatResult EXCEPT
            !.status = [status |-> "error", reason |-> "empty command"]]
    ELSE IF ~h.has_perf
    THEN [DefaultPerfStatResult EXCEPT
            !.status = [status |-> "unavailable", reason |-> "perf not found in PATH"]]
    ELSE LET can_timeout == CanTimeout(timeout_sec, h)
             timed_out == can_timeout /\ run.exit_code = TimeoutExitCode
             parse == ParsePerfStatCsvOutput(run.output, DefaultPerfStatData)
         IN  [status |-> CollectorStatusOf("perf", "counters", timed_out,
                                           parse.parsed_any, run.exit_code),
              command_exit_code |-> run.exit_code,
              timed_out |-> timed_out,
              data |-> parse.data]

CollectStraceSummary(command, timeout_sec, h, run) ==
    IF ~h.linux
    THEN [DefaultStraceSummaryResult EXCEPT
            !.status = [status |-> "unavailable", reason |-> "strace collector is Linux-only"]]
    ELSE IF command = <<>>
    THEN [DefaultStraceSummaryResult EXCEPT
            !.status = [status |-> "error", reason |-> "empty command"]]
    ELSE IF ~h.has_strace
    THEN [DefaultStraceSummaryResult EXCEPT
            !.status = [status |-> "unavailable", reason |-> "strace not found in PATH"]]
    ELSE LET can_timeout == CanTimeout(timeout_sec, h)
             timed_out == can_timeout /\ run.exit_code = TimeoutExitCode
             parse == ParseStraceSummaryOutput(run.output, DefaultStraceSummaryData)
         IN  [status |-> CollectorStatusOf("strace", "summary rows", timed_out,
                                           parse.parsed_any, run.exit_code),
              command_exit_code |-> run.exit_code,
              timed_out |-> timed_out,
              data |-> parse.data]

(***************************************************************************)
(* RunWithProcSampling: the pieces of the spawn-then-poll loop.            *)
(***************************************************************************)
\* Most iterations of the polling loop that find the child still running.
MaxPolls == 2

\* What one read of /proc/<pid>/status yields: unreadable, or the three
\* fields as ParseLeadingInteger found them.
Snapshot(readable, rss, vol, nonvol) ==
    [readable |-> readable, rss |-> rss, vol |-> vol, nonvol |-> nonvol]

\* The fold with max_rss_kb overwritten like the two counters.
UpdateProcSampleFromStatusText_LatestRss(snap, sample) ==
    LET with_rss ==
            IF snap.rss[1]
            THEN [sample EXCEPT !.max_rss_kb = snap.rss[2], !.has_max_rss_kb = TRUE]
            ELSE sample
        with_vol ==
            IF snap.vol[1]
            THEN [with_rss EXCEPT !.voluntary_ctxt_switches = snap.vol[2],
                                  !.has_voluntary_ctxt_switches = TRUE]
            ELSE with_rss
    IN  IF snap.nonvol[1]
        THEN [with_vol EXCEPT !.nonvoluntary_ctxt_switches = snap.nonvol[2],
                              !.has_nonvoluntary_ctxt_switches = TRUE]
        ELSE with_vol

UpdateProcSampleFromStatusText(snap, sample) ==
    LET with_rss ==
            IF snap.rss[1] /\ (~sample.has_max_rss_kb \/ snap.rss[2] > sample.max_rss_kb)
            THEN [sample EXCEPT !.max_rss_kb = snap.rss[2], !.has_max_rss_kb = TRUE]
            ELSE sample
        with_vol ==
            IF snap.vol[1]
            THEN [with_rss EXCEPT !.voluntary_ctxt_switches = snap.vol[2],
                                  !.has_voluntary_ctxt_switches = TRUE]
            ELSE with_rss
    IN  IF snap.nonvol[1]
        THEN [with_vol EXCEPT !.nonvoluntary_ctxt_switches = snap.nonvol[2],
                              !.has_nonvoluntary_ctxt_switches = TRUE]
        ELSE with_vol

\* A wait status: how the child ended ("exited" with a code, "signaled" with a
\* signal number, anything else with the raw status).
WaitStatus(kind, n) == [kind |-> kind, n |-> n]

DecodeWaitStatus(status) ==
    CASE status.kind = "exited" -> [code |-> status.n, classification |-> "exit_code"]
      [] status.kind = "signaled" ->
            [code |-> SignalExitBase + status.n, classification |-> "signal"]
      [] OTHER -> [code |-> status.n, classification |-> "unknown"]

\* Exit code and classification of the failures inside RunWithProcSampling.
SamplingFailureExitCode == 2

SpawnError ==
    [DefaultWorkloadRunResult EXCEPT
        !.exit_code = SamplingFailureExitCode, !.exit_classification = "spawn_error",
        !.proc_collector_status = [status |-> "error", reason |-> "fork failed"]]

WaitError(w, wall_ms) ==
    [w EXCEPT
        !.exit_code = SamplingFailureExitCode, !.exit_classification = "wait_error",
        !.proc_collector_status = [status |-> "error", reason |-> "waitpid failed"],
        !.wall_time_ms = wall_ms]

SamplerStatus(saw_proc_status) ==
    IF saw_proc_status THEN [status |-> "ok", reason |-> ""]
    ELSE [status |-> "unavailable", reason |-> "unable to read /proc/<pid>/status"]

(***************************************************************************)
(* HandleRun: what the run command is started with and what the machine    *)
(* delivers while it runs.                                                 *)
(***************************************************************************)
DefaultCollectorTimeoutSec == 120
UsageExitCode == 2

Collectors == {"proc_status", "perf_stat", "strace_summary"}

Machine(linux, has_perf, has_strace, has_timeout, has_qemu, writable) ==
    [linux |-> linux, has_perf |-> has_perf, has_strace |-> has_strace,
     has_timeout |-> has_timeout, has_qemu |-> has_qemu, writable |-> writable]

CompleteMachine == Machine(TRUE, TRUE, TRUE, TRUE, TRUE, TRUE)

\* A complete Linux machine, and machines lacking one thing each.
Machines ==
    {CompleteMachine,
     Machine(TRUE, TRUE, TRUE, FALSE, TRUE, TRUE),
     Machine(TRUE, FALSE, TRUE, TRUE, TRUE, TRUE),
     Machine(TRUE, TRUE, FALSE, TRUE, TRUE, TRUE),
     Machine(TRUE, TRUE, TRUE, TRUE, FALSE, TRUE),
     Machine(TRUE, TRUE, TRUE, TRUE, TRUE, FALSE),
     Machine(FALSE, FALSE, FALSE, FALSE, FALSE, TRUE)}

\* strict, json_path ("" when --json is not given), and how the argument
\* scan ended: "ok", "usage" (any of its error returns) or "help".
Options(scan, strict, json_path) == [scan |-> scan, strict |-> strict, json_path |-> json_path]

OptionSets ==
    {Options(scan, strict, json_path) :
        scan \in {"ok", "usage", "help"}, strict \in BOOLEAN, json_path \in {"", "out.json"}}

\* The invocations: every command line on the complete machine, every
\* well-formed native one on the other machines, and --qemu with and without
\* the qemu binary.
Invocations ==
    {<<o, CompleteMachine, "native">> : o \in OptionSets}
    \cup {<<o, h, "native">> : o \in {x \in OptionSets : x.scan = "ok"}, h \in Machines}
    \cup {<<Options("ok", FALSE, ""), h, "qemu">> : h \in {m \in Machines : m.writable}}

ExecArgs == <<"workload">>

Snapshots ==
    {Snapshot(FALSE, <<FALSE, 0>>, <<FALSE, 0>>, <<FALSE, 0>>),
     Snapshot(TRUE, <<TRUE, 100>>, <<TRUE, 5>>, <<TRUE, 1>>),
     Snapshot(TRUE, <<TRUE, 80>>, <<TRUE, 3>>, <<FALSE, 0>>)}

WaitStatuses == {WaitStatus("exited", 0), WaitStatus("signaled", SigKill)}

PerfOutputs ==
    {<<>>,
     <<PerfLine(1, <<FALSE, 0>>, "")>>,
     <<PerfLine(4, <<TRUE, 1000>>, "cycles"), PerfLine(4, <<FALSE, 0>>, "branches"),
       PerfLine(4, <<TRUE, 900>>, "instructions")>>}

StraceOutputs ==
    {<<>>,
     <<SummaryLine(FALSE, 2, <<FALSE, 0>>, <<FALSE, 0>>, <<FALSE, 0>>, "attach")>>,
     <<SummaryLine(TRUE, 6, <<FALSE, 0>>, <<FALSE, 0>>, <<FALSE, 0>>, "syscall"),
       SummaryLine(FALSE, 5, <<TRUE, 300>>, <<TRUE, 12>>, <<FALSE, 0>>, "read"),
       SummaryLine(FALSE, 5, <<TRUE, 400>>, <<TRUE, 12>>, <<FALSE, 0>>, "total")>>}

\* What RunCommandCapture can deliver for a wrapped command line.  tripped
\* records that the time bound of `timeout --signal=KILL <N>s` expired: the
\* wrapper then kills with SIGKILL, a signal it cannot withstand itself when
\* it signals its process group, so the decoded status is either the
\* wrapper's own timeout status or 128 + SIGKILL.
CommandResults(can_timeout, outputs) ==
    {[tripped |-> FALSE, exit_code |-> c, output |-> o] : c \in {0, 1}, o \in outputs}
    \cup
    IF can_timeout
    THEN {[tripped |-> TRUE, exit_code |-> c, output |-> o] :
            c \in {TimeoutExitCode, KilledExitCode}, o \in outputs}
    ELSE {}

NoCommandResult == [tripped |-> FALSE, exit_code |-> -1, output |-> <<>>]

IsCollectorUsableInStrictMode(status) == status.status = "ok"

(***************************************************************************)
(* Text.  Where the code looks inside a string (Trim, ToLower) the string  *)
(* is carried as the sequence of its characters.                           *)
(***************************************************************************)
UpperCase ==
    <<"A", "B", "C", "D", "E", "F", "G", "H", "I", "J", "K", "L", "M",
      "N", "O", "P", "Q", "R", "S", "T", "U", "V", "W", "X", "Y", "Z">>

LowerCase ==
    <<"a", "b", "c", "d", "e", "f", "g", "h", "i", "j", "k", "l", "m",
      "n", "o", "p", "q", "r", "s", "t", "u", "v", "w", "x", "y", "z">>

Whitespace == {" ", "\t", "\r", "\n"}

Trim(value) ==
    LET kept == {i \in 1..Len(value) : value[i] \notin Whitespace}
    IN  IF kept = {} THEN <<>>
        ELSE SubSeq(value,
                    CHOOSE i \in kept : \A j \in kept : i <= j,
                    CHOOSE i \in kept : \A j \in kept : i >= j)

\* ToLower, character by character.
ToLowerChars(value) ==
    [i \in 1..Len(value) |->
        IF \E k \in 1..Len(UpperCase) : UpperCase[k] = value[i]
        THEN LowerCase[CHOOSE k \in 1..Len(UpperCase) : UpperCase[k] = value[i]]
        ELSE value[i]]

RECURSIVE Text(_)
\* The std::string of a sequence of characters.
Text(chars) == IF chars = <<>> THEN "" ELSE Head(chars) \o Text(Tail(chars))

RECURSIVE JoinCommaSeparated(_)
JoinCommaSeparated(strings) ==
    IF strings = <<>> THEN ""
    ELSE IF Len(strings) = 1 THEN strings[1]
    ELSE strings[1] \o ", " \o JoinCommaSeparated(Tail(strings))

(***************************************************************************)
(* The text of the tool outputs: src/src/parsers/perf_parser.cpp and       *)
(* src/src/parsers/strace_parser.cpp below the line records.  A line is    *)
(* the sequence of its characters, a text the sequence of its lines.       *)
(* Numbers read from text are exact rationals; the texts hold no           *)
(* hexadecimal, infinity or NaN spellings and no value out of range.       *)
(* Where the code stores an intermediate result in a local variable and    *)
(* reads it several times, the result is bound here as the one element of  *)
(* a set ({F(x) : x \in {e}}), so that it is computed once.                *)
(***************************************************************************)
Digits == <<"0", "1", "2", "3", "4", "5", "6", "7", "8", "9">>

IsDigit(ch) == \E k \in 1..Len(Digits) : Digits[k] = ch

DigitValue(ch) == (CHOOSE k \in 1..Len(Digits) : Digits[k] = ch) - 1

Count(value, ch) == Cardinality({i \in 1..Len(value) : value[i] = ch})

\* value.erase(std::remove(..., ch), ...)
Erase(value, ch) == SelectSeq(value, LAMBDA c : c # ch)

\* std::replace(..., old, new)
Replace(value, old, new) ==
    [i \in 1..Len(value) |-> IF value[i] = old THEN new ELSE value[i]]

StartsWith(value, prefix) ==
    /\ Len(value) >= Len(prefix)
    /\ SubSeq(value, 1, Len(prefix)) = prefix

RECURSIVE DigitRun(_, _)
\* The number of digits of value from position i on.
DigitRun(value, i) ==
    IF i <= Len(value) /\ IsDigit(value[i]) THEN 1 + DigitRun(value, i + 1) ELSE 0

RECURSIVE DecimalValue(_)
DecimalValue(digits) ==
    IF digits = <<>> THEN 0
    ELSE 10 * DecimalValue(SubSeq(digits, 1, Len(digits) - 1))
         + DigitValue(digits[Len(digits)])

\* An optional number: <<FALSE, 0>> when absent.
NoNumber == <<FALSE, 0>>

\* The first position of value that holds no whitespace (Len(value) + 1 when
\* there is none): strtod and strtoll skip leading whitespace.
FirstNonSpace(value) ==
    LET kept == {i \in 1..Len(value) : value[i] \notin Whitespace}
    IN  IF kept = {} THEN Len(value) + 1 ELSE CHOOSE i \in kept : \A j \in kept : i <= j

\* std::stod: the longest prefix that is a decimal floating-point numeral
\* (sign, digits with at most one point, exponent), absent when there is no
\* such prefix (std::invalid_argument).
Stod(value) ==
    LET start == FirstNonSpace(value)
        signed == start <= Len(value) /\ value[start] \in {"+", "-"}
        negative == signed /\ value[start] = "-"
        int_at == IF signed THEN start + 1 ELSE start
        int_len == DigitRun(value, int_at)
        point_at == int_at + int_len
        has_point == point_at <= Len(value) /\ value[point_at] = "."
        frac_len == IF has_point THEN DigitRun(value, point_at + 1) ELSE 0
        mantissa_end == IF has_point THEN point_at + 1 + frac_len ELSE point_at
        mantissa == DecimalValue(SubSeq(value, int_at, int_at + int_len - 1)
                                 \o SubSeq(value, point_at + 1, point_at + frac_len))
        has_e == mantissa_end <= Len(value) /\ value[mantissa_end] \in {"e", "E"}
        exp_signed == has_e /\ mantissa_end + 1 <= Len(value)
                            /\ value[mantissa_end + 1] \in {"+", "-"}
        exp_at == IF exp_signed THEN mantissa_end + 2 ELSE mantissa_end + 1
        exp_len == IF has_e THEN DigitRun(value, exp_at) ELSE 0
        exp == DecimalValue(SubSeq(value, exp_at, exp_at + exp_len - 1))
        exp_negative == exp_signed /\ value[mantissa_end + 1] = "-"
        n == IF exp_len > 0 /\ ~exp_negative THEN mantissa * Pow10(exp) ELSE mantissa
        d == IF exp_len > 0 /\ exp_negative
             THEN Pow10(frac_len) * Pow10(exp) ELSE Pow10(frac_len)
    IN  IF int_len + frac_len = 0 THEN NoNumber
        ELSE <<TRUE, Rat(IF negative THEN -n ELSE n, d)>>

\* std::stoll: the longest prefix that is a decimal integer, absent when there
\* is none.
Stoll(value) ==
    LET start == FirstNonSpace(value)
        signed == start <= Len(value) /\ value[start] \in {"+", "-"}
        int_at == IF signed THEN start + 1 ELSE start
        int_len == DigitRun(value, int_at)
        n == DecimalValue(SubSeq(value, int_at, int_at + int_len - 1))
    IN  IF int_len = 0 THEN NoNumber
        ELSE <<TRUE, IF signed /\ value[start] = "-" THEN -n ELSE n>>

GroupingCommas == 2
GroupDigits == 3

CanonicalizeNumericText(value) ==
    LET spaced == Erase(Trim(value), " ")
        comma_count == Count(spaced, ",")
        dot_count == Count(spaced, ".")
        last_comma == CHOOSE i \in 0..Len(spaced) :
                        /\ i > 0 => spaced[i] = ","
                        /\ \A j \in (i + 1)..Len(spaced) : spaced[j] # ","
        digits_after == Len(spaced) - last_comma
    IN  IF comma_count > 0 /\ dot_count = 0
        THEN IF comma_count >= GroupingCommas \/ digits_after = GroupDigits
             THEN Erase(spaced, ",")
             ELSE Replace(spaced, ",", ".")
        ELSE IF comma_count > 0 /\ dot_count > 0 THEN Erase(spaced, ",")
        ELSE spaced

RECURSIVE SplitOn(_, _)
SplitOn(line, delimiter) ==
    LET at == {i \in 1..Len(line) : line[i] = delimiter}
    IN  IF at = {} THEN <<line>>
        ELSE LET first == CHOOSE i \in at : \A j \in at : i <= j
             IN  <<SubSeq(line, 1, first - 1)>>
                 \o (CHOOSE fields \in {SplitOn(rest, delimiter) :
                                            rest \in {SubSeq(line, first + 1, Len(line))}} :
                         TRUE)

SplitCsv(line) ==
    SplitOn(line, IF \E i \in 1..Len(line) : line[i] = ";" THEN ";" ELSE ",")

NumericCharacters == {".", "-", "+", "e", "E"}

ParseNumericCounter(value) ==
    LET canonical == CanonicalizeNumericText(value)
        cleaned == SelectSeq(canonical, LAMBDA ch : IsDigit(ch) \/ ch \in NumericCharacters)
    IN  IF cleaned = <<>> THEN NoNumber
        ELSE CHOOSE number \in {Stod(text) : text \in {cleaned}} : TRUE

\* The line record of one line of perf output.
PerfLineOf(line) ==
    LET Record(fields) ==
            IF Len(fields) < MinCsvFields THEN PerfLine(Len(fields), NoNumber, "")
            ELSE PerfLine(Len(fields), ParseNumericCounter(Trim(fields[1])),
                          Text(Trim(fields[3])))
    IN  CHOOSE record \in {Record(fields) : fields \in {SplitCsv(line)}} : TRUE

PerfLines(text) == [i \in 1..Len(text) |-> PerfLineOf(text[i])]

RECURSIVE SplitWhitespace(_)
\* `stream >> token` until the stream is exhausted.  The rest of the line is
\* bound as a value (the one element of a set), so that it is read once.
SplitWhitespace(line) ==
    LET start == FirstNonSpace(line)
        spaces == {i \in start..Len(line) : line[i] \in Whitespace}
        stop == IF spaces = {} THEN Len(line) + 1
                ELSE CHOOSE i \in spaces : \A j \in spaces : i <= j
    IN  IF start > Len(line) THEN <<>>
        ELSE <<SubSeq(line, start, stop - 1)>>
             \o (CHOOSE tokens \in {SplitWhitespace(rest) :
                                        rest \in {SubSeq(line, stop, Len(line))}} : TRUE)

ParseLongLong(value) == Stoll(value)

ParseDouble(value) ==
    LET normalized == Erase(Trim(value), " ")
        comma_count == Count(normalized, ",")
        dot_count == Count(normalized, ".")
    IN  CHOOSE number \in
            {Stod(text) :
                text \in {IF comma_count > 0 /\ dot_count = 0
                          THEN Replace(normalized, ",", ".")
                          ELSE IF comma_count > 0 /\ dot_count > 0
                          THEN Erase(normalized, ",")
                          ELSE normalized}} : TRUE

TimeHeader == <<"%", " ", "t", "i", "m", "e">>
Rule == <<"-", "-", "-", "-", "-", "-">>

\* The line record with the errors column read one token too early.
SummaryLineOf_ErrorsOffByOne(line) ==
    LET Fields(trimmed, tokens, seconds) ==
            SummaryLine(trimmed = <<>> \/ StartsWith(trimmed, TimeHeader)
                            \/ StartsWith(trimmed, Rule),
                        Len(tokens),
                        IF seconds[1]
                        THEN <<TRUE, Rat(seconds[2].n * 1000, seconds[2].d)>>
                        ELSE NoNumber,
                        IF Len(tokens) >= 4 THEN ParseLongLong(tokens[4]) ELSE NoNumber,
                        IF Len(tokens) >= 4 THEN ParseLongLong(tokens[4]) ELSE NoNumber,
                        IF tokens = <<>> THEN "" ELSE Text(tokens[Len(tokens)]))
        Record(trimmed, tokens) ==
            CHOOSE record \in
                {Fields(trimmed, tokens, seconds) :
                    seconds \in {IF Len(tokens) >= 2 THEN ParseDouble(tokens[2])
                                 ELSE NoNumber}} : TRUE
    IN  CHOOSE record \in
            {Record(trimmed, tokens) :
                trimmed \in {Trim(line)}, tokens \in {SplitWhitespace(Trim(line))}} : TRUE

\* The line record of one line of strace output.
SummaryLineOf(line) ==
    LET Fields(trimmed, tokens, seconds) ==
            SummaryLine(trimmed = <<>> \/ StartsWith(trimmed, TimeHeader)
                            \/ StartsWith(trimmed, Rule),
                        Len(tokens),
                        IF seconds[1]
                        THEN <<TRUE, Rat(seconds[2].n * 1000, seconds[2].d)>>
                        ELSE NoNumber,
                        IF Len(tokens) >= 4 THEN ParseLongLong(tokens[4]) ELSE NoNumber,
                        IF Len(tokens) >= 5 THEN ParseLongLong(tokens[5]) ELSE NoNumber,
                        IF tokens = <<>> THEN "" ELSE Text(tokens[Len(tokens)]))
        Record(trimmed, tokens) ==
            CHOOSE record \in
                {Fields(trimmed, tokens, seconds) :
                    seconds \in {IF Len(tokens) >= 2 THEN ParseDouble(tokens[2])
                                 ELSE NoNumber}} : TRUE
    IN  CHOOSE record \in
            {Record(trimmed, tokens) :
                trimmed \in {Trim(line)}, tokens \in {SplitWhitespace(Trim(line))}} : TRUE

SummaryLines(text) == [i \in 1..Len(text) |-> SummaryLineOf(text[i])]

(***************************************************************************)
(* src/src/qemu.cpp.                                                       *)
(***************************************************************************)
SupportedQemuArchSelectors == <<"x86_64", "aarch64", "riscv64">>

\* An optional string: <<FALSE, "">> when absent.
Absent == <<FALSE, "">>

Present(text) == <<TRUE, text>>

NormalizeQemuArchSelector(selector) ==
    LET lower == ToLowerChars(Trim(selector))
    IN  IF \/ lower = <<"x", "8", "6", "_", "6", "4">>
           \/ lower = <<"a", "m", "d", "6", "4">>
           \/ lower = <<"x", "6", "4">>
        THEN Present("x86_64")
        ELSE IF \/ lower = <<"a", "a", "r", "c", "h", "6", "4">>
                \/ lower = <<"a", "r", "m", "6", "4">>
        THEN Present("aarch64")
        ELSE IF \/ lower = <<"r", "i", "s", "c", "v", "6", "4">>
                \/ lower = <<"r", "i", "s", "c", "v">>
                \/ lower = <<"r", "v", "6", "4">>
        THEN Present("riscv64")
        ELSE Absent

(***************************************************************************)
(* src/src/commands/compare.cpp: Median.  The values are integers          *)
(* (durations in milliseconds, counter values); the median is a rational.  *)
(***************************************************************************)
RECURSIVE Insert(_, _)
Insert(sorted, v) ==
    IF sorted = <<>> THEN <<v>>
    ELSE IF v < Head(sorted) THEN <<v>> \o sorted
    ELSE <<Head(sorted)>> \o Insert(Tail(sorted), v)

RECURSIVE SortAscending(_)
\* std::sort on the vector.
SortAscending(vs) ==
    IF vs = <<>> THEN <<>> ELSE Insert(SortAscending(Tail(vs)), Head(vs))

\* The middle picked from the vector as it was passed.
Median_Unsorted(vs) ==
    LET n == Len(vs)
    IN  IF n % 2 = 1 THEN Rat(vs[(n \div 2) + 1], 1)
        ELSE Rat(vs[n \div 2] + vs[(n \div 2) + 1], 2)

\* values[k] of the source is sorted[k + 1] here.
Median(vs) ==
    LET sorted == SortAscending(vs)
        n == Len(sorted)
    IN  IF n % 2 = 1 THEN Rat(sorted[(n \div 2) + 1], 1)
        ELSE Rat(sorted[n \div 2] + sorted[(n \div 2) + 1], 2)

(***************************************************************************)
(* src/src/commands/compare.cpp: loading a run artifact.                   *)
(*                                                                         *)
(* An artifact file is carried as what the extraction helpers find in its  *)
(* text: readable tells whether ReadTextFile succeeds, every other field   *)
(* is the optional result of ExtractJsonString / ExtractJsonNumber /       *)
(* ExtractCollectorStatus / the qemu.arch pattern on that text.            *)
(***************************************************************************)
CounterNames ==
    <<"cycles", "instructions", "branches", "branch_misses", "cache_misses", "page_faults">>

CounterNameSet == {CounterNames[i] : i \in 1..Len(CounterNames)}

NoCounters == [c \in CounterNameSet |-> <<FALSE, 0>>]

DefaultRunSample ==
    [path |-> "", mode |-> "", command |-> "", duration_ms |-> 0, qemu_arch |-> Absent,
     perf_status |-> "unknown", strace_status |-> "unknown", proc_status |-> "unknown",
     perf_counters |-> NoCounters]

ValueOr(optional, fallback) == IF optional[1] THEN optional[2] ELSE fallback

Rejected(error) == [ok |-> FALSE, error |-> error, sample |-> DefaultRunSample]

Loaded(sample) == [ok |-> TRUE, error |-> "", sample |-> sample]

\* LoadRunSample accepting any kind of artifact.
LoadRunSample_AnyKind(file, expected_mode) ==
    IF ~file.readable THEN Rejected("unable to read artifact file")
    ELSE IF ~file.mode[1] \/ ~file.command[1] \/ ~file.duration[1]
    THEN Rejected("artifact missing one of required fields: mode, command, duration_sec")
    ELSE Loaded([DefaultRunSample EXCEPT
                    !.path = file.path, !.mode = file.mode[2],
                    !.command = file.command[2], !.duration_ms = file.duration[2]])

LoadRunSample(file, expected_mode) ==
    IF ~file.readable THEN Rejected("unable to read artifact file")
    ELSE IF ~file.kind[1] \/ file.kind[2] # "run_result"
    THEN Rejected("artifact is not a run_result JSON")
    ELSE IF ~file.mode[1] \/ ~file.command[1] \/ ~file.duration[1]
    THEN Rejected("artifact missing one of required fields: mode, command, duration_sec")
    ELSE IF expected_mode[1] /\ file.mode[2] # expected_mode[2]
    THEN Rejected("expected mode '" \o expected_mode[2] \o "' but got '" \o file.mode[2] \o "'")
    ELSE LET sample ==
                [DefaultRunSample EXCEPT
                    !.path = file.path,
                    !.mode = file.mode[2],
                    !.command = file.command[2],
                    !.duration_ms = file.duration[2],
                    !.perf_status = ValueOr(file.perf_status, "unknown"),
                    !.strace_status = ValueOr(file.strace_status, "unknown"),
                    !.proc_status = ValueOr(file.proc_status, "unknown"),
                    !.perf_counters = file.counters]
         IN  IF sample.mode # "qemu" THEN Loaded(sample)
             ELSE IF ~file.arch[1] THEN Rejected("qemu run artifact missing qemu.arch")
             ELSE LET normalized == NormalizeQemuArchSelector(file.arch[2])
                  IN  IF ~normalized[1]
                      THEN Rejected("unsupported qemu arch '" \o Text(file.arch[2])
                                    \o "' in artifact; supported: "
                                    \o JoinCommaSeparated(SupportedQemuArchSelectors))
                      ELSE Loaded([sample EXCEPT !.qemu_arch = normalized])

RECURSIVE LoadBucket(_, _, _)
\* The loop over one list of paths: it stops at the first artifact that does
\* not load.  label is "native" or "qemu".
LoadBucket(files, label, loaded) ==
    IF files = <<>> THEN [ok |-> TRUE, message |-> "", samples |-> loaded]
    ELSE LET one == LoadRunSample(Head(files), Present(label))
         IN  IF ~one.ok
             THEN [ok |-> FALSE,
                   message |-> "compare: failed to parse " \o label \o " artifact "
                               \o Head(files).path \o ": " \o one.error,
                   samples |-> <<>>]
             ELSE LoadBucket(Tail(files), label, Append(loaded, one.sample))

HasAnyNonOkCollector(sample) ==
    sample.perf_status # "ok" \/ sample.strace_status # "ok" \/ sample.proc_status # "ok"

(***************************************************************************)
(* src/src/commands/compare.cpp: the figures and the caveats.              *)
(***************************************************************************)
RecommendedMeasuredRuns == 5

RatSub(a, b) == Rat(a.n * b.d - b.n * a.d, a.d * b.d)

\* a / b for b > 0
RatDiv(a, b) == Rat(a.n * b.d, a.d * b.n)

RatPositive(a) == a.n > 0

PrimaryCaveat ==
    "Wall-clock and throughput are primary metrics for native vs QEMU comparison."

ProtocolCaveat(native_count, qemu_count) ==
    "Protocol note: Section 4 recommends 1 warm-up plus 5 measured runs per mode; "
    \o "provided native=" \o ToString(native_count)
    \o ", qemu=" \o ToString(qemu_count) \o "."

QemuPerfCaveat ==
    "Perf counters in QEMU mode are emulation-affected and not directly equivalent to native counters."

CommandsCaveat == "Input artifacts do not share an identical command string."

NonOkCaveat == "At least one collector was not 'ok' in the compared artifacts."

MultiArchCaveat(qemu_arch_list) ==
    "Compared QEMU samples include multiple target architectures: "
    \o JoinCommaSeparated(qemu_arch_list) \o "."

\* The canonical selectors in the order std::set<std::string> iterates them.
SelectorsInSetOrder == <<"aarch64", "riscv64", "x86_64">>

QemuArchList(qemu_samples) ==
    LET qemu_archs == {qemu_samples[i].qemu_arch[2] :
                            i \in {j \in 1..Len(qemu_samples) : qemu_samples[j].qemu_arch[1]}}
    IN  SelectSeq(SelectorsInSetOrder, LAMBDA a : a \in qemu_archs)

Durations(samples) == [i \in 1..Len(samples) |-> samples[i].duration_ms]

\* The values of one counter over the samples that expose it, in sample order.
RECURSIVE CounterValues(_, _)
CounterValues(samples, counter_name) ==
    IF samples = <<>> THEN <<>>
    ELSE IF Head(samples).perf_counters[counter_name][1]
    THEN <<Head(samples).perf_counters[counter_name][2]>>
         \o CounterValues(Tail(samples), counter_name)
    ELSE CounterValues(Tail(samples), counter_name)

\* The medians check testing the native median only.
DurationMediansUsable_NativeOnly(native_median, qemu_median) == ~(native_median.n <= 0)

\* The negation of `native_median <= 0.0 || qemu_median <= 0.0`.
DurationMediansUsable(native_median, qemu_median) ==
    ~(native_median.n <= 0 \/ qemu_median.n <= 0)

\* A ratio entered whenever the native bucket exposes the counter.
CounterRatio_NativeSideOnly(native_samples, qemu_samples, counter_name) ==
    LET native_values == CounterValues(native_samples, counter_name)
        qemu_values == CounterValues(qemu_samples, counter_name)
    IN  IF native_values = <<>> THEN <<FALSE, Zero>>
        ELSE IF qemu_values = <<>> THEN <<TRUE, Zero>>
        ELSE IF RatPositive(Median(native_values))
        THEN <<TRUE, RatDiv(Median(qemu_values), Median(native_values))>>
        ELSE <<FALSE, Zero>>

\* One pass of the loop over counter_names: the entry of counter_ratios, if any.
CounterRatio(native_samples, qemu_samples, counter_name) ==
    LET native_values == CounterValues(native_samples, counter_name)
        qemu_values == CounterValues(qemu_samples, counter_name)
    IN  IF native_values = <<>> \/ qemu_values = <<>> THEN <<FALSE, Zero>>
        ELSE IF RatPositive(Median(native_values))
        THEN <<TRUE, RatDiv(Median(qemu_values), Median(native_values))>>
        ELSE <<FALSE, Zero>>

\* The protocol note pushed for the native count only.
NeedsProtocolCaveat_NativeOnly(native_count, qemu_count) ==
    native_count # RecommendedMeasuredRuns

NeedsProtocolCaveat(native_count, qemu_count) ==
    native_count # RecommendedMeasuredRuns \/ qemu_count # RecommendedMeasuredRuns

UsesRecommendedSampleCount(native_count, qemu_count) ==
    native_count = RecommendedMeasuredRuns /\ qemu_count = RecommendedMeasuredRuns

\* The multi-architecture caveat pushed for any tagged qemu sample.
NeedsMultiArchCaveat_AnyArch(qemu_arch_list) == Len(qemu_arch_list) >= 1

NeedsMultiArchCaveat(qemu_arch_list) == Len(qemu_arch_list) > 1

CommandsMatch(native_samples, qemu_samples) ==
    LET baseline_command == native_samples[1].command
    IN  /\ \A i \in 1..Len(native_samples) : native_samples[i].command = baseline_command
        /\ \A i \in 1..Len(qemu_samples) : qemu_samples[i].command = baseline_command

Caveats(native_samples, qemu_samples) ==
    LET qemu_arch_list == QemuArchList(qemu_samples)
        protocol == IF NeedsProtocolCaveat(Len(native_samples), Len(qemu_samples))
                    THEN <<ProtocolCaveat(Len(native_samples), Len(qemu_samples))>> ELSE <<>>
        qemu_perf == IF \E i \in 1..Len(qemu_samples) : qemu_samples[i].perf_status = "ok"
                     THEN <<QemuPerfCaveat>> ELSE <<>>
        commands == IF ~CommandsMatch(native_samples, qemu_samples)
                    THEN <<CommandsCaveat>> ELSE <<>>
        non_ok == IF \/ \E i \in 1..Len(native_samples) : HasAnyNonOkCollector(native_samples[i])
                     \/ \E i \in 1..Len(qemu_samples) : HasAnyNonOkCollector(qemu_samples[i])
                  THEN <<NonOkCaveat>> ELSE <<>>
        multi_arch == IF NeedsMultiArchCaveat(qemu_arch_list)
                      THEN <<MultiArchCaveat(qemu_arch_list)>> ELSE <<>>
    IN  <<PrimaryCaveat>> \o protocol \o qemu_perf \o commands \o non_ok \o multi_arch

(***************************************************************************)
(* src/src/commands/compare.cpp: HandleCompare.                            *)
(*                                                                         *)
(* args is the scanned command line: scan is "ok", "usage" (an error       *)
(* return of the scan) or "help"; the three path lists hold the artifact   *)
(* files the paths name; writable tells whether WriteTextFile succeeds.    *)
(* The figures are kept exact; the artifact record holds the protocol      *)
(* block and the caveats of the JSON document.                             *)
(***************************************************************************)
NoArtifact ==
    [written |-> FALSE, provided_native_samples |-> 0, provided_qemu_samples |-> 0,
     uses_recommended_sample_count |-> "", caveats |-> <<>>]

NoCompareOutput ==
    [returned |-> FALSE, code |-> 0, message |-> "", computed |-> FALSE,
     native_count |-> 0, qemu_count |-> 0,
     native_median |-> Zero, qemu_median |-> Zero,
     delta_duration |-> Zero, slowdown_factor |-> Zero,
     throughput_ratio |-> Zero, throughput_change_pct |-> Zero,
     qemu_arch_list |-> <<>>, commands_match |-> FALSE,
     counter_ratios |-> [c \in CounterNameSet |-> <<FALSE, Zero>>],
     caveats |-> <<>>, artifact |-> NoArtifact]

CompareFailure(message) ==
    [NoCompareOutput EXCEPT !.returned = TRUE, !.code = UsageExitCode, !.message = message]

\* From the loaded buckets to the return.
CompareBuckets(args, native_samples, qemu_samples) ==
    LET native_median == Median(Durations(native_samples))
        qemu_median == Median(Durations(qemu_samples))
    IN  IF ~DurationMediansUsable(native_median, qemu_median)
        THEN CompareFailure("compare: duration medians must be positive")
        ELSE
        LET throughput_ratio == RatDiv(native_median, qemu_median)
            caveats == Caveats(native_samples, qemu_samples)
            computed ==
                [NoCompareOutput EXCEPT
                    !.returned = TRUE,
                    !.computed = TRUE,
                    !.native_count = Len(native_samples),
                    !.qemu_count = Len(qemu_samples),
                    !.native_median = native_median,
                    !.qemu_median = qemu_median,
                    !.delta_duration = RatSub(qemu_median, native_median),
                    !.slowdown_factor = RatDiv(qemu_median, native_median),
                    !.throughput_ratio = throughput_ratio,
                    !.throughput_change_pct =
                        Rat((throughput_ratio.n - throughput_ratio.d) * 100, throughput_ratio.d),
                    !.qemu_arch_list = QemuArchList(qemu_samples),
                    !.commands_match = CommandsMatch(native_samples, qemu_samples),
                    !.counter_ratios =
                        [c \in CounterNameSet |-> CounterRatio(native_samples, qemu_samples, c)],
                    !.caveats = caveats]
        IN  IF args.json_path = "" THEN computed
            ELSE IF ~args.writable
            THEN [computed EXCEPT !.code = UsageExitCode,
                                  !.message = "compare: failed to write " \o args.json_path
                                               \o ": unable to open output file"]
            ELSE [computed EXCEPT !.artifact =
                    [written |-> TRUE,
                     provided_native_samples |-> Len(native_samples),
                     provided_qemu_samples |-> Len(qemu_samples),
                     uses_recommended_sample_count |->
                        IF UsesRecommendedSampleCount(Len(native_samples), Len(qemu_samples))
                        THEN "true" ELSE "false",
                     caveats |-> caveats]]

HandleCompare(args) ==
    IF args.scan = "usage" THEN CompareFailure("compare: --json expects a path")
    ELSE IF args.scan = "help" THEN [NoCompareOutput EXCEPT !.returned = TRUE]
    ELSE IF (args.native_paths # <<>> \/ args.qemu_paths # <<>>) /\ args.positional_paths # <<>>
    THEN CompareFailure("compare: use either positional mode (2 files) or "
                        \o "--native/--qemu lists, not both")
    ELSE IF args.native_paths # <<>> \/ args.qemu_paths # <<>>
    THEN IF args.native_paths = <<>> \/ args.qemu_paths = <<>>
         THEN CompareFailure("compare: both --native and --qemu inputs are required")
         ELSE LET native == LoadBucket(args.native_paths, "native", <<>>)
              IN  IF ~native.ok THEN CompareFailure(native.message)
                  ELSE LET qemu == LoadBucket(args.qemu_paths, "qemu", <<>>)
                       IN  IF ~qemu.ok THEN CompareFailure(qemu.message)
                           ELSE CompareBuckets(args, native.samples, qemu.samples)
    ELSE IF Len(args.positional_paths) # 2
    THEN CompareFailure("compare: expected either two positional files or "
                        \o "explicit --native/--qemu lists")
    ELSE LET first == LoadRunSample(args.positional_paths[1], Absent)
             second == LoadRunSample(args.positional_paths[2], Absent)
         IN  IF ~first.ok
             THEN CompareFailure("compare: failed to parse artifact "
                                 \o args.positional_paths[1].path \o ": " \o first.error)
             ELSE IF ~second.ok
             THEN CompareFailure("compare: failed to parse artifact "
                                 \o args.positional_paths[2].path \o ": " \o second.error)
             ELSE IF first.sample.mode = "native" /\ second.sample.mode = "qemu"
             THEN CompareBuckets(args, <<first.sample>>, <<second.sample>>)
             ELSE IF first.sample.mode = "qemu" /\ second.sample.mode = "native"
             THEN CompareBuckets(args, <<second.sample>>, <<first.sample>>)
             ELSE CompareFailure("compare: positional inputs must include exactly one "
                                 \o "native and one qemu artifact")

(***************************************************************************)
(* The command lines HandleCompare is called with.                         *)
(***************************************************************************)
\* Longest list of artifacts given for one mode.
MaxSamples == 6

\* Longest list of values handed to Median.
MaxValues == 4

ArtifactFile(readable, kind, run_mode, command, duration, arch, perf_status, counters) ==
    [path |-> "", readable |-> readable, kind |-> kind, mode |-> run_mode,
     command |-> command, duration |-> duration, arch |-> arch,
     perf_status |-> perf_status, strace_status |-> Present("ok"),
     proc_status |-> Present("ok"), counters |-> counters]

NoArch == <<FALSE, <<>>>>

Amd64 == <<TRUE, <<"a", "m", "d", "6", "4">>>>

\* A well-formed artifact of a native run lasting duration_ms.
NativeRun(duration_ms) ==
    ArtifactFile(TRUE, Present("run_result"), Present("native"), Present("bench"),
                 <<TRUE, duration_ms>>, NoArch, Present("ok"), NoCounters)

\* A well-formed artifact of a qemu run lasting duration_ms.
QemuRun(duration_ms, arch) ==
    ArtifactFile(TRUE, Present("run_result"), Present("qemu"), Present("bench"),
                 <<TRUE, duration_ms>>, arch, Present("error"), NoCounters)

\* The paths of a list: <prefix>1.json, <prefix>2.json, ...
AtPaths(files, prefix) ==
    [i \in 1..Len(files) |-> [files[i] EXCEPT !.path = prefix \o ToString(i) \o ".json"]]

ListsOver(pool, longest) == UNION {[1..n -> pool] : n \in 1..longest}

CompareArgs(scan, native_paths, qemu_paths, positional_paths, json_path, writable) ==
    [scan |-> scan, native_paths |-> AtPaths(native_paths, "n"),
     qemu_paths |-> AtPaths(qemu_paths, "q"),
     positional_paths |-> AtPaths(positional_paths, "p"),
     json_path |-> json_path, writable |-> writable]

Lists(native_paths, qemu_paths) == CompareArgs("ok", native_paths, qemu_paths, <<>>, "", TRUE)

\* Artifacts with one thing wrong each, next to a well-formed one.
NativePool ==
    {NativeRun(1000),
     [NativeRun(1000) EXCEPT !.readable = FALSE],
     [NativeRun(1000) EXCEPT !.kind = Present("compare_result")],
     [NativeRun(1000) EXCEPT !.kind = Absent],
     [NativeRun(1000) EXCEPT !.mode = Absent],
     [NativeRun(1000) EXCEPT !.command = Absent],
     [NativeRun(1000) EXCEPT !.duration = <<FALSE, 0>>],
     QemuRun(1000, Amd64)}

QemuPool ==
    {QemuRun(3000, Amd64),
     QemuRun(3000, NoArch),
     QemuRun(3000, <<TRUE, <<"s", "p", "a", "r", "c">>>>),
     [QemuRun(3000, Amd64) EXCEPT !.kind = Present("compare_result")],
     NativeRun(3000)}

PositionalPool ==
    {NativeRun(1000), QemuRun(3000, Amd64), QemuRun(3000, NoArch),
     [NativeRun(1000) EXCEPT !.mode = Present("other")],
     [NativeRun(1000) EXCEPT !.duration = <<FALSE, 0>>]}

DurationPool == {-500, 0, 1000, 3000}

CounterProfiles ==
    {NoCounters,
     [NoCounters EXCEPT !["cycles"] = <<TRUE, 100>>, !["instructions"] = <<TRUE, 0>>,
                        !["page_faults"] = <<TRUE, -4>>],
     [NoCounters EXCEPT !["cycles"] = <<TRUE, 300>>, !["instructions"] = <<TRUE, 0>>,
                        !["page_faults"] = <<TRUE, -8>>, !["branches"] = <<TRUE, 7>>],
     [NoCounters EXCEPT !["cycles"] = <<TRUE, 200>>, !["cache_misses"] = <<TRUE, 5>>]}

\* Spellings of the selectors: aliases, upper case, padding.
ArchPool ==
    {Amd64,
     <<TRUE, <<"x", "8", "6", "_", "6", "4">>>>,
     <<TRUE, <<" ", "A", "A", "r", "c", "h", "6", "4", " ">>>>,
     <<TRUE, <<"a", "r", "m", "6", "4", "\n">>>>,
     <<TRUE, <<"R", "V", "6", "4">>>>,
     <<TRUE, <<"\t", "X", "6", "4">>>>}

NotePool ==
    {NativeRun(1000),
     [NativeRun(1000) EXCEPT !.command = Present("other bench")],
     [NativeRun(1000) EXCEPT !.perf_status = Present("error")],
     [NativeRun(1000) EXCEPT !.proc_status = Absent]}

AsQemu(file) == [file EXCEPT !.mode = Present("qemu"), !.arch = Amd64]

CompareFamilies == {"validation", "scan", "figures", "counters", "sizes", "arch", "notes"}

CompareArgsOf(family) ==
    CASE family = "validation" ->
            {Lists(n, q) : n \in ListsOver(NativePool, 2), q \in ListsOver(QemuPool, 2)}
      [] family = "scan" ->
            {CompareArgs(scan, n, q, p, "", TRUE) :
                scan \in {"ok", "usage", "help"},
                n \in {<<>>, <<NativeRun(1000)>>},
                q \in {<<>>, <<QemuRun(3000, Amd64)>>},
                p \in {<<>>} \cup ListsOver(PositionalPool, 2)
                      \cup {<<NativeRun(1000), QemuRun(3000, Amd64), NativeRun(1000)>>}}
      [] family = "figures" ->
            {CompareArgs("ok", [i \in 1..Len(n) |-> NativeRun(n[i])],
                         [i \in 1..Len(q) |-> QemuRun(q[i], Amd64)], <<>>, json_path, TRUE) :
                n \in ListsOver(DurationPool, 2), q \in ListsOver(DurationPool, 2),
                json_path \in {"", "cmp.json"}}
      [] family = "counters" ->
            {Lists([i \in 1..Len(n) |-> [NativeRun(1000) EXCEPT !.counters = n[i]]],
                   [i \in 1..Len(q) |-> [QemuRun(3000, Amd64) EXCEPT !.counters = q[i]]]) :
                n \in ListsOver(CounterProfiles, 2), q \in ListsOver(CounterProfiles, 2)}
      [] family = "sizes" ->
            {CompareArgs("ok", [i \in 1..n |-> NativeRun(1000)],
                         [i \in 1..q |-> QemuRun(3000, Amd64)], <<>>, json_path, writable) :
                n \in 1..MaxSamples, q \in 1..MaxSamples,
                json_path \in {"", "cmp.json"}, writable \in BOOLEAN}
      [] family = "arch" ->
            {Lists(<<NativeRun(1000)>>, [i \in 1..Len(q) |-> QemuRun(3000, q[i])]) :
                q \in ListsOver(ArchPool, 3)}
      [] family = "notes" ->
            {Lists(n, [i \in 1..Len(q) |-> AsQemu(q[i])]) :
                n \in ListsOver(NotePool, 2), q \in ListsOver(NotePool, 2)}

(***************************************************************************)
(* The state machine: one call of DiagnoseRun.                             *)
(***************************************************************************)
\* The variables of a command that is not running.
NoSampling == [polls |-> 0, saw_proc_status |-> FALSE, wait_status |-> WaitStatus("none", 0)]

NoOutcome == [returned |-> FALSE, code |-> 0, report |-> FALSE, artifact |-> FALSE]

RunIdle ==
    /\ run_pc = "idle"
    /\ options = Options("ok", FALSE, "")
    /\ host = CompleteMachine
    /\ capture = [c \in {"perf_stat", "strace_summary"} |-> NoCommandResult]
    /\ alive = {}
    /\ invoked = [c \in Collectors |-> 0]
    /\ sampling = NoSampling
    /\ outcome = NoOutcome

DiagnoseIdle ==
    /\ workload = DefaultWorkloadRunResult
    /\ perf = DefaultPerfStatResult
    /\ strace = DefaultStraceSummaryResult
    /\ mode = "native"
    /\ result = DefaultDiagnosisResult
    /\ rule_evidence = <<>>
    /\ pc = "idle"

CompareIdle ==
    /\ cmp_in = CompareArgs("ok", <<>>, <<>>, <<>>, "", TRUE)
    /\ cmp_out = NoCompareOutput

NoMedian == [returned |-> FALSE, value |-> Zero]

MedianIdle ==
    /\ median_values = <<>>
    /\ median = NoMedian

NoParse == [returned |-> FALSE, parsed_any |-> FALSE, value |-> NoNumber,
            perf |-> DefaultPerfStatData, strace |-> DefaultStraceSummaryData]

ParseIdle ==
    /\ parse_in = [parser |-> "", text |-> <<>>]
    /\ parse_out = NoParse

NoSamplingLocals == [saw_proc_status |-> FALSE, wait_status |-> WaitStatus("none", 0)]

SamplingIdle ==
    /\ samp_pc = "idle"
    /\ child = "none"
    /\ samp_log = <<>>
    /\ samp_locals = NoSamplingLocals
    /\ samp_result = DefaultWorkloadRunResult

Init ==
    /\ DiagnoseIdle
    /\ RunIdle
    /\ CompareIdle
    /\ MedianIdle
    /\ ParseIdle
    /\ SamplingIdle

DiagnoseRunCall ==
    /\ pc = "idle"
    /\ \E family \in Families :
         \E w \in WorkloadsOf(family), p \in PerfsOf(family),
            s \in StracesOf(family), m \in ModesOf(family) :
            /\ workload' = w
            /\ perf' = p
            /\ strace' = s
            /\ mode' = m
            /\ rule_evidence' = RuleVerdict(w, p, s, m).evidence
            /\ result' = DiagnoseRun(w, p, s, m)
    /\ pc' = "done"
    /\ UNCHANGED <<run_vars, cmp_vars, med_vars,
                   parse_vars, samp_vars>>

Next == DiagnoseRunCall

Spec == Init /\ [][Next]_vars

(***************************************************************************)
(* The state machine of one HandleRun invocation.  Every call that blocks  *)
(* on a workload execution is split into the step that starts the          *)
(* execution and the step at which the call sees it ended.                 *)
(***************************************************************************)
WallMs == 1000

\* The strict preflight left out: the collectors' own checks decide.
HandleRunPreflight_StrictUnchecked(o, h, m) ==
    IF o.scan = "usage" THEN [returns |-> TRUE, code |-> UsageExitCode]
    ELSE IF o.scan = "help" THEN [returns |-> TRUE, code |-> 0]
    ELSE IF m = "qemu" /\ ~h.has_qemu THEN [returns |-> TRUE, code |-> UsageExitCode]
    ELSE [returns |-> FALSE, code |-> 0]

\* The returns of HandleRun that precede the first execution: the argument
\* scan, the qemu binary lookup and the strict preflight.
HandleRunPreflight(o, h, m) ==
    IF o.scan = "usage" THEN [returns |-> TRUE, code |-> UsageExitCode]
    ELSE IF o.scan = "help" THEN [returns |-> TRUE, code |-> 0]
    ELSE IF m = "qemu" /\ ~h.has_qemu THEN [returns |-> TRUE, code |-> UsageExitCode]
    ELSE IF o.strict /\ ~h.linux THEN [returns |-> TRUE, code |-> UsageExitCode]
    ELSE IF o.strict /\ (~h.has_perf \/ ~h.has_strace)
    THEN [returns |-> TRUE, code |-> UsageExitCode]
    ELSE [returns |-> FALSE, code |-> 0]

HandleRunEnter ==
    /\ run_pc = "idle"
    /\ \E call \in Invocations :
        /\ options' = call[1]
        /\ host' = call[2]
        /\ mode' = call[3]
        /\ LET early == HandleRunPreflight(call[1], call[2], call[3])
           IN  IF early.returns
               THEN /\ outcome' = [NoOutcome EXCEPT !.returned = TRUE, !.code = early.code]
                    /\ run_pc' = "returned"
               ELSE /\ outcome' = outcome
                    /\ run_pc' = "spawn"
    /\ UNCHANGED <<workload, perf, strace, result, rule_evidence, pc,
                   capture, alive, invoked, sampling, cmp_vars, med_vars,
                   parse_vars, samp_vars>>

\* RunWithProcSampling up to the running child (fork), or to its return when
\* fork fails; without /proc the command is run through RunCommandStatus.
RunWithProcSamplingSpawn ==
    /\ run_pc = "spawn"
    /\ invoked' = [invoked EXCEPT !["proc_status"] = @ + 1]
    /\ \E forked \in BOOLEAN :
        IF ~host.linux
        THEN /\ forked
             /\ alive' = alive \cup {"monitored"}
             /\ run_pc' = "blocking"
             /\ workload' = workload
        ELSE IF forked
        THEN /\ alive' = alive \cup {"monitored"}
             /\ run_pc' = "poll"
             /\ workload' = workload
        ELSE /\ alive' = alive
             /\ run_pc' = "perf"
             /\ workload' = SpawnError
    /\ UNCHANGED <<perf, strace, mode, result, rule_evidence, pc,
                   options, host, capture, sampling, outcome, cmp_vars, med_vars,
                   parse_vars, samp_vars>>

\* One iteration of the polling loop: a snapshot read, then waitpid with
\* WNOHANG.  waitpid on the caller's own child fails only once that child
\* can no longer be waited for, so the execution is over on that exit too.
RunWithProcSamplingPoll ==
    /\ run_pc = "poll"
    /\ \E snap \in Snapshots, wait_result \in {"running", "exited", "failed"} :
        LET sample == IF snap.readable
                      THEN UpdateProcSampleFromStatusText(snap, workload.proc_sample)
                      ELSE workload.proc_sample
            saw == sampling.saw_proc_status \/ snap.readable
            sampled == [workload EXCEPT !.proc_sample = sample]
        IN  CASE wait_result = "running" ->
                    /\ sampling.polls < MaxPolls
                    /\ workload' = sampled
                    /\ sampling' = [sampling EXCEPT !.polls = @ + 1, !.saw_proc_status = saw]
                    /\ alive' = alive
                    /\ run_pc' = "poll"
              [] wait_result = "exited" ->
                    \E ws \in WaitStatuses :
                        /\ workload' = sampled
                        /\ sampling' = [sampling EXCEPT !.saw_proc_status = saw,
                                                        !.wait_status = ws]
                        /\ alive' = alive \ {"monitored"}
                        /\ run_pc' = "final_read"
              [] wait_result = "failed" ->
                    /\ workload' = WaitError(sampled, WallMs)
                    /\ sampling' = [sampling EXCEPT !.saw_proc_status = saw]
                    /\ alive' = alive \ {"monitored"}
                    /\ run_pc' = "perf"
    /\ UNCHANGED <<perf, strace, mode, result, rule_evidence, pc,
                   options, host, capture, invoked, outcome, cmp_vars, med_vars,
                   parse_vars, samp_vars>>

\* After the loop: the final snapshot read and the finalization of the result.
RunWithProcSamplingFinish ==
    /\ run_pc = "final_read"
    /\ \E snap \in Snapshots :
        LET sample == IF snap.readable
                      THEN UpdateProcSampleFromStatusText(snap, workload.proc_sample)
                      ELSE workload.proc_sample
            saw == sampling.saw_proc_status \/ snap.readable
            decoded == DecodeWaitStatus(sampling.wait_status)
        IN  /\ workload' = [exit_code |-> decoded.code,
                            exit_classification |-> decoded.classification,
                            wall_time_ms |-> WallMs,
                            proc_sample |-> sample,
                            proc_collector_status |-> SamplerStatus(saw)]
            /\ sampling' = [sampling EXCEPT !.saw_proc_status = saw]
    /\ run_pc' = "perf"
    /\ UNCHANGED <<perf, strace, mode, result, rule_evidence, pc,
                   options, host, capture, alive, invoked, outcome, cmp_vars, med_vars,
                   parse_vars, samp_vars>>

\* The build without /proc: RunCommandStatus returns the decoded status.
RunWithProcSamplingBlockingReturn ==
    /\ run_pc = "blocking"
    /\ \E code \in {0, 3} :
        workload' = [DefaultWorkloadRunResult EXCEPT
                        !.exit_code = code, !.exit_classification = "exit_code",
                        !.wall_time_ms = WallMs,
                        !.proc_collector_status =
                            [status |-> "unavailable",
                             reason |-> "/proc collector is Linux-only"]]
    /\ alive' = alive \ {"monitored"}
    /\ run_pc' = "perf"
    /\ UNCHANGED <<perf, strace, mode, result, rule_evidence, pc,
                   options, host, capture, invoked, sampling, outcome, cmp_vars, med_vars,
                   parse_vars, samp_vars>>

\* The perf replay started without waiting for the monitored execution.
CollectPerfStatCall_WhilePolling ==
    /\ run_pc \in {"poll", "perf"}
    /\ invoked' = [invoked EXCEPT !["perf_stat"] = @ + 1]
    /\ alive' = alive \cup {"perf"}
    /\ perf' = perf
    /\ run_pc' = "perf_wait"
    /\ UNCHANGED <<workload, strace, mode, result, rule_evidence, pc,
                   options, host, capture, sampling, outcome, cmp_vars, med_vars,
                   parse_vars, samp_vars>>

\* CollectPerfStat up to RunCommandCapture (the replay is started), or to its
\* return when it gives up before running anything.
CollectPerfStatCall ==
    /\ run_pc = "perf"
    /\ invoked' = [invoked EXCEPT !["perf_stat"] = @ + 1]
    /\ IF host.linux /\ host.has_perf
       THEN /\ alive' = alive \cup {"perf"}
            /\ perf' = perf
            /\ run_pc' = "perf_wait"
       ELSE /\ alive' = alive
            /\ perf' = CollectPerfStat(ExecArgs, DefaultCollectorTimeoutSec, host,
                                       NoCommandResult)
            /\ run_pc' = "strace"
    /\ UNCHANGED <<workload, strace, mode, result, rule_evidence, pc,
                   options, host, capture, sampling, outcome, cmp_vars, med_vars,
                   parse_vars, samp_vars>>

\* RunCommandCapture returns: the rest of CollectPerfStat.
CollectPerfStatReturn ==
    /\ run_pc = "perf_wait"
    /\ \E run \in CommandResults(CanTimeout(DefaultCollectorTimeoutSec, host), PerfOutputs) :
        /\ capture' = [capture EXCEPT !["perf_stat"] = run]
        /\ perf' = CollectPerfStat(ExecArgs, DefaultCollectorTimeoutSec, host, run)
    /\ alive' = alive \ {"perf"}
    /\ run_pc' = "strace"
    /\ UNCHANGED <<workload, strace, mode, result, rule_evidence, pc,
                   options, host, invoked, sampling, outcome, cmp_vars, med_vars,
                   parse_vars, samp_vars>>

CollectStraceSummaryCall ==
    /\ run_pc = "strace"
    /\ invoked' = [invoked EXCEPT !["strace_summary"] = @ + 1]
    /\ IF host.linux /\ host.has_strace
       THEN /\ alive' = alive \cup {"strace"}
            /\ strace' = strace
            /\ run_pc' = "strace_wait"
       ELSE /\ alive' = alive
            /\ strace' = CollectStraceSummary(ExecArgs, DefaultCollectorTimeoutSec, host,
                                              NoCommandResult)
            /\ run_pc' = "report"
    /\ UNCHANGED <<workload, perf, mode, result, rule_evidence, pc,
                   options, host, capture, sampling, outcome, cmp_vars, med_vars,
                   parse_vars, samp_vars>>

CollectStraceSummaryReturn ==
    /\ run_pc = "strace_wait"
    /\ \E run \in CommandResults(CanTimeout(DefaultCollectorTimeoutSec, host), StraceOutputs) :
        /\ capture' = [capture EXCEPT !["strace_summary"] = run]
        /\ strace' = CollectStraceSummary(ExecArgs, DefaultCollectorTimeoutSec, host, run)
    /\ alive' = alive \ {"strace"}
    /\ run_pc' = "report"
    /\ UNCHANGED <<workload, perf, mode, result, rule_evidence, pc,
                   options, host, invoked, sampling, outcome, cmp_vars, med_vars,
                   parse_vars, samp_vars>>

\* Every collector failure ending the command with the usage exit code.
HandleRunReport_AlwaysStrict(o, h, w, p, s) ==
    IF ~IsCollectorUsableInStrictMode(w.proc_collector_status)
       \/ ~IsCollectorUsableInStrictMode(p.status)
       \/ ~IsCollectorUsableInStrictMode(s.status)
    THEN [NoOutcome EXCEPT !.returned = TRUE, !.code = UsageExitCode]
    ELSE IF o.json_path # "" /\ ~h.writable
    THEN [NoOutcome EXCEPT !.returned = TRUE, !.code = UsageExitCode, !.report = TRUE]
    ELSE [returned |-> TRUE, code |-> w.exit_code, report |-> TRUE,
          artifact |-> o.json_path # ""]

\* From the strict post-check to the return: the report is composed and
\* printed, then written to json_path when one is given.
HandleRunReport(o, h, w, p, s) ==
    IF o.strict /\ (~IsCollectorUsableInStrictMode(w.proc_collector_status)
                    \/ ~IsCollectorUsableInStrictMode(p.status)
                    \/ ~IsCollectorUsableInStrictMode(s.status))
    THEN [NoOutcome EXCEPT !.returned = TRUE, !.code = UsageExitCode]
    ELSE IF o.json_path # "" /\ ~h.writable
    THEN [NoOutcome EXCEPT !.returned = TRUE, !.code = UsageExitCode, !.report = TRUE]
    ELSE [returned |-> TRUE, code |-> w.exit_code, report |-> TRUE,
          artifact |-> o.json_path # ""]

HandleRunFinish ==
    /\ run_pc = "report"
    /\ outcome' = HandleRunReport(options, host, workload, perf, strace)
    /\ run_pc' = "returned"
    /\ UNCHANGED <<workload, perf, strace, mode, result, rule_evidence, pc,
                   options, host, capture, alive, invoked, sampling, cmp_vars, med_vars,
                   parse_vars, samp_vars>>

InitRun == Init

NextRun ==
    \/ HandleRunEnter
    \/ RunWithProcSamplingSpawn
    \/ RunWithProcSamplingPoll
    \/ RunWithProcSamplingFinish
    \/ RunWithProcSamplingBlockingReturn
    \/ CollectPerfStatCall
    \/ CollectPerfStatReturn
    \/ CollectStraceSummaryCall
    \/ CollectStraceSummaryReturn
    \/ HandleRunFinish

SpecRun == InitRun /\ [][NextRun]_vars

(***************************************************************************)
(* The state machine of one HandleCompare call.                            *)
(***************************************************************************)
HandleCompareCall ==
    /\ ~cmp_out.returned
    /\ \E family \in CompareFamilies : \E args \in CompareArgsOf(family) :
        /\ cmp_in' = args
        /\ cmp_out' = HandleCompare(args)
    /\ UNCHANGED <<diag_vars, run_vars, med_vars, parse_vars, samp_vars>>

InitCompare == Init

NextCompare == HandleCompareCall

SpecCompare == InitCompare /\ [][NextCompare]_vars

(***************************************************************************)
(* The state machine of one Median call.                                   *)
(***************************************************************************)
MedianValues == {-1, 1, 2, 3, 4}

InitMedian ==
    /\ DiagnoseIdle
    /\ RunIdle
    /\ CompareIdle
    /\ median_values \in ListsOver(MedianValues, MaxValues)
    /\ median = NoMedian
    /\ ParseIdle
    /\ SamplingIdle

MedianCall ==
    /\ ~median.returned
    /\ median' = [returned |-> TRUE, value |-> Median(median_values)]
    /\ UNCHANGED <<diag_vars, run_vars, cmp_vars, median_values, parse_vars, samp_vars>>

NextMedian == MedianCall

SpecMedian == InitMedian /\ [][NextMedian]_vars

(***************************************************************************)
(* The state machine of one parser call, on text.                          *)
(***************************************************************************)
\* Most rows put around the six counter rows of a perf text.
MaxExtraRows == 1

\* Longest strace text, in lines.
MaxLines == 3

\* Longest value handed to ParseNumericCounter, in characters.
MaxValueLen == 5

\* A row of `perf stat -x,` output: value, unit (empty), event name.
CsvRow(value, event) == value \o <<",", ",">> \o event
CyclesName == <<"c", "y", "c", "l", "e", "s">>
InstructionsName == <<"i", "n", "s", "t", "r", "u", "c", "t", "i", "o", "n", "s">>
BranchesName == <<"b", "r", "a", "n", "c", "h", "e", "s">>
BranchMissesName == <<"b", "r", "a", "n", "c", "h", "-", "m", "i", "s", "s", "e", "s">>
CacheMissesName == <<"c", "a", "c", "h", "e", "-", "m", "i", "s", "s", "e", "s">>
PageFaultsName == <<"p", "a", "g", "e", "-", "f", "a", "u", "l", "t", "s">>
\* One row per recognized event, the values plain numerals.
CounterRows ==
    <<CsvRow(<<"1", "1">>, CyclesName),
      CsvRow(<<" ", "2", "2", " ">>, <<" ">> \o InstructionsName \o <<"\r">>),
      CsvRow(<<"3">>, BranchesName) \o <<",", "1", "0", "0", ".", "0", "0">>,
      CsvRow(<<"4">>, BranchMissesName),
      CsvRow(<<"0">>, CacheMissesName),
      CsvRow(<<"6", ".", "5">>, PageFaultsName)>>

\* Rows that are no counter row: unrecognized event names, too few fields,
\* no number in the value field.
ExtraRows ==
    {<<>>,
     CsvRow(<<"9">>, <<"C", "y", "c", "l", "e", "s">>),
     CsvRow(<<"9">>, CyclesName \o <<":", "u">>),
     <<"9", ",">> \o BranchesName,
     CsvRow(<<>>, InstructionsName),
     CsvRow(<<"<", "n", "o", "t", " ", "s", "u", "p", "p", "o", "r", "t", "e", "d", ">">>, CyclesName),
     CsvRow(<<"n", "7">>, PageFaultsName)}

PerfTexts ==
    {SubSeq(rows, 1, at) \o extra \o SubSeq(rows, at + 1, Len(rows)) :
        rows \in {[i \in 1..Len(CounterRows) |-> CounterRows[p[i]]] :
                    p \in Permutations(1..Len(CounterRows))},
        extra \in UNION {[1..n -> ExtraRows] : n \in 0..MaxExtraRows},
        at \in {0, 3, Len(CounterRows)}}
\* Lines of `strace -c` output: data rows with and without the errors
\* column, totals, the header and the rule, rows that cannot be read.
SummaryRows ==
    {<<"5", "0", ".", "0", "0", " ", "0", ".", "3", "0", "0", " ", "2", "5", " ", "1",
         "2", " ", "r", "e", "a", "d">>,
     <<" ", " ", "3", "0", ".", "0", "0", " ", " ", " ", " ", "0", ".", "2", "0", "0",
         " ", " ", " ", " ", " ", "2", "0", " ", " ", " ", " ", "1", "0", " ", " ", " ",
         " ", " ", "3", " ", "w", "r", "i", "t", "e">>,
     <<"1", "0", ".", "0", "0", " ", "0", ".", "1", "0", "0", " ", "2", "0", " ", "5",
         " ", "x", " ", "o", "p", "e", "n", "a", "t">>,
     <<"1", "0", "0", ".", "0", "0", " ", "0", ".", "6", "0", "0", " ", "2", "7", " ",
         "3", " ", "t", "o", "t", "a", "l">>,
     <<"1", "0", "0", ".", "0", "0", "\t", "0", ".", "7", "0", "0", " ", "2", "7", " ",
         "3", " ", "1", " ", "t", "o", "t", "a", "l">>,
     <<"%", " ", "t", "i", "m", "e", " ", "s", "e", "c", "o", "n", "d", "s", " ", "u",
         "s", "e", "c", "s", "/", "c", "a", "l", "l", " ", "c", "a", "l", "l", "s", " ",
         "e", "r", "r", "o", "r", "s", " ", "s", "y", "s", "c", "a", "l", "l">>,
     <<"-", "-", "-", "-", "-", "-", " ", "-", "-", "-", "-", "-", "-", " ", "-", "-",
         "-", "-", "-", "-", " ", "-", "-", "-", "-", "-", "-", " ", "-", "-", "-", "-",
         "-", "-", " ", "-", "-", "-", "-", "-", "-">>,
     <<"5", ".", "0", "0", " ", "0", ".", "0", "5", "0", " ", "1", "0", " ", "x", " ",
         "c", "l", "o", "s", "e">>,
     <<"s", "t", "r", "a", "c", "e", ":", " ", "a", "t", "t", "a", "c", "h">>,
     <<>>,
     <<"5", ",", "0", "0", " ", "0", ",", "0", "4", "0", " ", "8", " ", "2", " ", "m",
         "m", "a", "p">>,
     <<"1", ".", "0", "0", " ", "0", ".", "0", "1", "0", " ", "1", " ", "1", " ", "2",
         " ", "3", " ", "f", "u", "t", "e", "x">>}

StraceTexts == UNION {[1..n -> SummaryRows] : n \in 0..MaxLines}

ValueCharacters == {"1", "2", ",", ".", "e", "x"}

ValueExamples ==
    {<<"1", ",", "2", "3", "4">>,
     <<"1", ",", "2", "3">>,
     <<"1", ",", "2", "3", "4", ",", "5", "6", "7">>,
     <<" ", "1", " ", "2", "3", "4", ",", "5", " ">>,
     <<"1", ",", "2", "3", "4", ".", "5">>,
     <<"-", "1", ",", "5">>,
     <<"1", "2", ",", "3", "4", "5", "6">>}

\* Values whose exponent, if any, has a single digit.
Values ==
    ValueExamples
    \cup {value \in UNION {[1..n -> ValueCharacters] : n \in 0..MaxValueLen} :
            \A i \in 1..Len(value) :
                value[i] = "e" =>
                    Cardinality({j \in (i + 1)..Len(value) : IsDigit(value[j])}) <= 1}

ParsePerfStatCsvOutputCall ==
    /\ ~parse_out.returned
    /\ \E text \in PerfTexts :
        /\ parse_in' = [parser |-> "ParsePerfStatCsvOutput", text |-> text]
        /\ \E r \in {ParsePerfStatCsvOutput(lines, DefaultPerfStatData) :
                        lines \in {PerfLines(text)}} :
               parse_out' = [NoParse EXCEPT !.returned = TRUE,
                                            !.parsed_any = r.parsed_any, !.perf = r.data]
    /\ UNCHANGED <<diag_vars, run_vars, cmp_vars, med_vars, samp_vars>>

ParseStraceSummaryOutputCall ==
    /\ ~parse_out.returned
    /\ \E text \in StraceTexts :
        /\ parse_in' = [parser |-> "ParseStraceSummaryOutput", text |-> text]
        /\ \E r \in {ParseStraceSummaryOutput(lines, DefaultStraceSummaryData) :
                        lines \in {SummaryLines(text)}} :
               parse_out' = [NoParse EXCEPT !.returned = TRUE,
                                            !.parsed_any = r.parsed_any, !.strace = r.data]
    /\ UNCHANGED <<diag_vars, run_vars, cmp_vars, med_vars, samp_vars>>

ParseNumericCounterCall ==
    /\ ~parse_out.returned
    /\ \E value \in Values :
        /\ parse_in' = [parser |-> "ParseNumericCounter", text |-> value]
        /\ parse_out' = [NoParse EXCEPT !.returned = TRUE,
                                        !.value = ParseNumericCounter(value)]
    /\ UNCHANGED <<diag_vars, run_vars, cmp_vars, med_vars, samp_vars>>

InitParsers == Init

NextParsers ==
    \/ ParsePerfStatCsvOutputCall
    \/ ParseStraceSummaryOutputCall
    \/ ParseNumericCounterCall

SpecParsers == InitParsers /\ [][NextParsers]_vars

(***************************************************************************)
(* The state machine of one RunWithProcSampling call, statement by         *)
(* statement: fork, then the loop (snapshot read, waitpid with WNOHANG,    *)
(* sleep), then the final snapshot read.  The child is "running" until it  *)
(* terminates ("exited": a zombie), and "reaped" once waitpid returned it. *)
(***************************************************************************)
\* A snapshot of a process without resident memory (a zombie).
ZombieSnapshot == Snapshot(TRUE, <<FALSE, 0>>, <<TRUE, 9>>, <<TRUE, 2>>)

\* What a read of /proc/<pid>/status can yield.  The path can be unreadable
\* at any time, and after the child is reaped it may name another process.
StatusReads == Snapshots \cup {ZombieSnapshot}

Read(op, snap) == [op |-> op, snap |-> snap, wait_result |-> ""]

Check(wait_result) ==
    [op |-> "check", snap |-> Snapshot(FALSE, <<FALSE, 0>>, <<FALSE, 0>>, <<FALSE, 0>>),
     wait_result |-> wait_result]

\* The exit checks made so far.
Checks == Cardinality({i \in 1..Len(samp_log) : samp_log[i].op = "check"})

\* ReadTextFile and, when it succeeds, UpdateProcSampleFromStatusText and
\* saw_proc_status = true.
ReadStatus(op, snap) ==
    /\ samp_result' =
            IF snap.readable
            THEN [samp_result EXCEPT
                    !.proc_sample = UpdateProcSampleFromStatusText(snap, @)]
            ELSE samp_result
    /\ samp_locals' = [samp_locals EXCEPT !.saw_proc_status = @ \/ snap.readable]
    /\ samp_log' = Append(samp_log, Read(op, snap))

RunWithProcSamplingFork ==
    /\ samp_pc = "idle"
    /\ \E forked \in BOOLEAN :
        IF forked
        THEN /\ child' = "running"
             /\ samp_result' = samp_result
             /\ samp_pc' = "read"
        ELSE /\ child' = child
             /\ samp_result' = SpawnError
             /\ samp_pc' = "returned"
    /\ UNCHANGED <<diag_vars, run_vars, cmp_vars, med_vars, parse_vars, samp_log, samp_locals>>

\* The child terminates.
ChildExits ==
    /\ child = "running"
    /\ child' = "exited"
    /\ UNCHANGED <<diag_vars, run_vars, cmp_vars, med_vars, parse_vars,
                   samp_pc, samp_log, samp_locals, samp_result>>

\* The head of a loop iteration.  After MaxPolls exit checks the next
\* iteration is the one that follows the child's termination.
RunWithProcSamplingRead ==
    /\ samp_pc = "read"
    /\ Checks < MaxPolls \/ child # "running"
    /\ \E snap \in StatusReads : ReadStatus("read", snap)
    /\ samp_pc' = "check"
    /\ UNCHANGED <<diag_vars, run_vars, cmp_vars, med_vars, parse_vars, child>>

\* The exit check breaking out of the loop on any result that is no error.
RunWithProcSamplingWait_BreakUnlessError ==
    /\ samp_pc = "check"
    /\ \E failed \in BOOLEAN :
        IF failed
        THEN /\ samp_result' = WaitError(samp_result, WallMs)
             /\ samp_log' = Append(samp_log, Check("failed"))
             /\ samp_pc' = "returned"
             /\ UNCHANGED <<child, samp_locals>>
        ELSE \E ws \in WaitStatuses :
                /\ samp_locals' = [samp_locals EXCEPT !.wait_status = ws]
                /\ samp_log' = Append(samp_log, Check("exited"))
                /\ child' = IF child = "exited" THEN "reaped" ELSE child
                /\ samp_pc' = "final_read"
                /\ samp_result' = samp_result
    /\ UNCHANGED <<diag_vars, run_vars, cmp_vars, med_vars, parse_vars>>

\* The exit check whose failure returns the sample without the error status.
RunWithProcSamplingWait_FailureUnmarked ==
    /\ samp_pc = "check"
    /\ \E failed \in BOOLEAN :
        IF failed
        THEN /\ samp_result' = [samp_result EXCEPT !.wall_time_ms = WallMs]
             /\ samp_log' = Append(samp_log, Check("failed"))
             /\ samp_pc' = "returned"
             /\ UNCHANGED <<child, samp_locals>>
        ELSE IF child = "running"
        THEN /\ samp_log' = Append(samp_log, Check("running"))
             /\ samp_pc' = "read"
             /\ UNCHANGED <<child, samp_locals, samp_result>>
        ELSE \E ws \in WaitStatuses :
                /\ samp_locals' = [samp_locals EXCEPT !.wait_status = ws]
                /\ samp_log' = Append(samp_log, Check("exited"))
                /\ child' = "reaped"
                /\ samp_pc' = "final_read"
                /\ samp_result' = samp_result
    /\ UNCHANGED <<diag_vars, run_vars, cmp_vars, med_vars, parse_vars>>

\* waitpid(pid, &wait_status, WNOHANG) and the two exits of the loop: 0 while
\* the child runs (sleep, next iteration), pid once it has terminated (break),
\* a negative value when the call fails (return).
RunWithProcSamplingWait ==
    /\ samp_pc = "check"
    /\ \E failed \in BOOLEAN :
        IF failed
        THEN /\ samp_result' = WaitError(samp_result, WallMs)
             /\ samp_log' = Append(samp_log, Check("failed"))
             /\ samp_pc' = "returned"
             /\ UNCHANGED <<child, samp_locals>>
        ELSE IF child = "running"
        THEN /\ samp_log' = Append(samp_log, Check("running"))
             /\ samp_pc' = "read"
             /\ UNCHANGED <<child, samp_locals, samp_result>>
        ELSE \E ws \in WaitStatuses :
                /\ samp_locals' = [samp_locals EXCEPT !.wait_status = ws]
                /\ samp_log' = Append(samp_log, Check("exited"))
                /\ child' = "reaped"
                /\ samp_pc' = "final_read"
                /\ samp_result' = samp_result
    /\ UNCHANGED <<diag_vars, run_vars, cmp_vars, med_vars, parse_vars>>

\* The final read with saw_proc_status left as the loop set it.
RunWithProcSamplingFinalRead_LoopReadsOnly ==
    /\ samp_pc = "final_read"
    /\ \E snap \in StatusReads :
        LET sample == IF snap.readable
                      THEN UpdateProcSampleFromStatusText(snap, samp_result.proc_sample)
                      ELSE samp_result.proc_sample
            decoded == DecodeWaitStatus(samp_locals.wait_status)
        IN  /\ samp_result' = [exit_code |-> decoded.code,
                               exit_classification |-> decoded.classification,
                               wall_time_ms |-> WallMs,
                               proc_sample |-> sample,
                               proc_collector_status |->
                                    SamplerStatus(samp_locals.saw_proc_status)]
            /\ samp_locals' = samp_locals
            /\ samp_log' = Append(samp_log, Read("final_read", snap))
    /\ samp_pc' = "returned"
    /\ UNCHANGED <<diag_vars, run_vars, cmp_vars, med_vars, parse_vars, child>>

\* After the loop: the final snapshot read and the finalization of the result.
RunWithProcSamplingFinalRead ==
    /\ samp_pc = "final_read"
    /\ \E snap \in StatusReads :
        LET sample == IF snap.readable
                      THEN UpdateProcSampleFromStatusText(snap, samp_result.proc_sample)
                      ELSE samp_result.proc_sample
            saw == samp_locals.saw_proc_status \/ snap.readable
            decoded == DecodeWaitStatus(samp_locals.wait_status)
        IN  /\ samp_result' = [exit_code |-> decoded.code,
                               exit_classification |-> decoded.classification,
                               wall_time_ms |-> WallMs,
                               proc_sample |-> sample,
                               proc_collector_status |-> SamplerStatus(saw)]
            /\ samp_locals' = [samp_locals EXCEPT !.saw_proc_status = saw]
            /\ samp_log' = Append(samp_log, Read("final_read", snap))
    /\ samp_pc' = "returned"
    /\ UNCHANGED <<diag_vars, run_vars, cmp_vars, med_vars, parse_vars, child>>

InitSampling == Init

NextSampling ==
    \/ RunWithProcSamplingFork
    \/ ChildExits
    \/ RunWithProcSamplingRead
    \/ RunWithProcSamplingWait
    \/ RunWithProcSamplingFinalRead

SpecSampling == InitSampling /\ [][NextSampling]_vars

\* The child eventually exits, and each step of the polling loop is
\* eventually taken.
SpecSamplingFair ==
    /\ SpecSampling
    /\ WF_vars(ChildExits)
    /\ WF_vars(RunWithProcSamplingRead)
    /\ WF_vars(RunWithProcSamplingWait)
    /\ WF_vars(RunWithProcSamplingFinalRead)

(***************************************************************************)
(* Properties.                                                             *)
(*                                                                         *)
(* The guards below are written from the documented thresholds, in terms   *)
(* of the derived metrics of the call's arguments; they do not use the     *)
(* cascade's own guard operators.                                          *)
(***************************************************************************)
Called == pc = "done"

Derived == ComputeDerived(workload, perf, strace)

Labels == {"cpu-bound", "io-bound", "syscall-heavy", "memory-pressure", "inconclusive"}

DocMemoryGuard ==
    /\ Derived.has_max_rss_mb /\ RatGeq(Derived.max_rss_mb, 512, 1)
    /\ \/ Derived.has_page_fault_rate /\ RatGeq(Derived.page_fault_rate, 500, 1)
       \/ Derived.has_voluntary_switch_rate /\ RatGeq(Derived.voluntary_switch_rate, 5000, 1)

DocIoGuard ==
    /\ Derived.has_syscall_share /\ Derived.has_io_share
    /\ RatGeq(Derived.syscall_share, 15, 100) /\ RatGeq(Derived.io_share, 60, 100)

DocSyscallGuard ==
    Derived.has_syscall_share /\ RatGeq(Derived.syscall_share, 15, 100)

DocCpuGuard ==
    /\ Derived.has_ipc /\ RatGeq(Derived.ipc, 90, 100)
    /\ (~Derived.has_syscall_share \/ RatLeq(Derived.syscall_share, 10, 100))
    /\ (~Derived.has_cache_miss_rate \/ RatLeq(Derived.cache_miss_rate, 5, 100))

Metrics(evidence) == [i \in 1..Len(evidence) |-> evidence[i].metric]

Range(s) == {s[i] : i \in 1..Len(s)}

\* C1: whatever DiagnoseRun is called with, the returned verdict's evidence
\* list has at least 2 entries.
C1_EvidenceAtLeastTwo == Called => Len(result.evidence) >= 2

\* C1 witness: a call whose matching rule produced a single entry and whose
\* returned evidence was topped up by the minimum-evidence step.
C1_Witness ==
    Called /\ Len(rule_evidence) = 1 /\ Len(result.evidence) >= 2

\* C2: the guards are tried in the order memory-pressure, io-bound,
\* syscall-heavy, cpu-bound and the first that holds decides the label: the
\* label is X exactly when guard X holds and no earlier guard holds; when the
\* memory-pressure and io-bound guards both hold the label is memory-pressure.
C2_CascadeOrder ==
    Called =>
        /\ result.label = "memory-pressure" <=> DocMemoryGuard
        /\ result.label = "io-bound" <=> (~DocMemoryGuard /\ DocIoGuard)
        /\ result.label = "syscall-heavy" <=>
               (~DocMemoryGuard /\ ~DocIoGuard /\ DocSyscallGuard)
        /\ result.label = "cpu-bound" <=>
               (~DocMemoryGuard /\ ~DocIoGuard /\ ~DocSyscallGuard /\ DocCpuGuard)
        /\ (DocMemoryGuard /\ DocIoGuard) => result.label = "memory-pressure"

\* C2 witness: a call where the memory-pressure guard and the io-bound guard
\* (and with it the syscall-heavy guard) hold together.
C2_Witness ==
    Called /\ DocMemoryGuard /\ DocIoGuard /\ DocSyscallGuard
    /\ result.label = "memory-pressure"

\* C3: DiagnoseRun always returns one of the five labels; when no guard holds
\* the label is inconclusive, the confidence low, the evidence is a
\* wall_time_sec entry followed by an exit_code entry, and the "no rule
\* crossed confidence thresholds" limitation has been appended.
C3_InconclusiveFallback ==
    Called =>
        /\ result.label \in Labels
        /\ (~DocMemoryGuard /\ ~DocIoGuard /\ ~DocSyscallGuard /\ ~DocCpuGuard) =>
              /\ result.label = "inconclusive"
              /\ result.confidence = "low"
              /\ Metrics(result.evidence) = <<"wall_time_sec", "exit_code">>
              /\ Len(result.limitations) >= 1
              /\ result.limitations[Len(result.limitations)] = NoRuleLimitation

\* C3 witness: a call in which every derived metric is absent.
C3_Witness ==
    /\ Called
    /\ ~Derived.has_ipc /\ ~Derived.has_cache_miss_rate /\ ~Derived.has_syscall_share
    /\ ~Derived.has_io_share /\ ~Derived.has_top_syscall_share
    /\ ~Derived.has_page_fault_rate /\ ~Derived.has_voluntary_switch_rate
    /\ ~Derived.has_max_rss_mb
    /\ result.label = "inconclusive"

\* C4: the label is memory-pressure exactly when max_rss_mb is present and
\* >= 512 and (page_fault_rate is present and >= 500, or voluntary_switch_rate
\* is present and >= 5000); the confidence is then high exactly when
\* page_fault_rate is present and >= 2000, and medium otherwise.
C4_MemoryPressure ==
    Called =>
        /\ result.label = "memory-pressure" <=>
              (/\ Derived.has_max_rss_mb /\ RatGeq(Derived.max_rss_mb, 512, 1)
               /\ \/ Derived.has_page_fault_rate /\ RatGeq(Derived.page_fault_rate, 500, 1)
                  \/ /\ Derived.has_voluntary_switch_rate
                     /\ RatGeq(Derived.voluntary_switch_rate, 5000, 1))
        /\ result.label = "memory-pressure" =>
              /\ result.confidence = "high" <=>
                    (Derived.has_page_fault_rate
                     /\ RatGeq(Derived.page_fault_rate, 2000, 1))
              /\ result.confidence \in {"high", "medium"}

\* C4 witness: memory-pressure reached through the context-switch rate alone,
\* with a page-fault rate that is present but below 500.
C4_Witness ==
    /\ Called /\ result.label = "memory-pressure" /\ result.confidence = "medium"
    /\ Derived.has_page_fault_rate /\ RatLt(Derived.page_fault_rate, 500, 1)

\* C5: when the memory-pressure guard is false, the label is io-bound exactly
\* when syscall_share and io_share are both present with syscall_share >= 0.15
\* and io_share >= 0.60; the confidence is then high exactly when
\* syscall_share >= 0.30 and io_share >= 0.75, and medium otherwise.
C5_IoBound ==
    (Called /\ ~DocMemoryGuard) =>
        /\ result.label = "io-bound" <=>
              (/\ Derived.has_syscall_share /\ Derived.has_io_share
               /\ RatGeq(Derived.syscall_share, 15, 100)
               /\ RatGeq(Derived.io_share, 60, 100))
        /\ result.label = "io-bound" =>
              /\ result.confidence = "high" <=>
                    (RatGeq(Derived.syscall_share, 30, 100)
                     /\ RatGeq(Derived.io_share, 75, 100))
              /\ result.confidence \in {"high", "medium"}

\* C5 witness: io-bound with medium confidence because only one of the two
\* high thresholds is met.
C5_Witness ==
    /\ Called /\ ~DocMemoryGuard /\ result.label = "io-bound"
    /\ result.confidence = "medium"
    /\ RatGeq(Derived.syscall_share, 30, 100) /\ RatLt(Derived.io_share, 75, 100)

\* C6: when neither the memory-pressure nor the io-bound guard holds, the
\* label is syscall-heavy exactly when syscall_share is present and >= 0.15;
\* the confidence is then high exactly when syscall_share >= 0.35, and medium
\* otherwise.
C6_SyscallHeavy ==
    (Called /\ ~DocMemoryGuard /\ ~DocIoGuard) =>
        /\ result.label = "syscall-heavy" <=>
              (Derived.has_syscall_share /\ RatGeq(Derived.syscall_share, 15, 100))
        /\ result.label = "syscall-heavy" =>
              /\ result.confidence = "high" <=> RatGeq(Derived.syscall_share, 35, 100)
              /\ result.confidence \in {"high", "medium"}

\* C6 witness: syscall-heavy with a syscall share in [0.30, 0.35), hence medium.
C6_Witness ==
    /\ Called /\ ~DocMemoryGuard /\ ~DocIoGuard /\ result.label = "syscall-heavy"
    /\ RatGeq(Derived.syscall_share, 30, 100) /\ RatLt(Derived.syscall_share, 35, 100)
    /\ result.confidence = "medium"

\* C7: when none of the memory-pressure, io-bound and syscall-heavy guards
\* holds, the label is cpu-bound exactly when IPC is present and >= 0.90,
\* syscall_share is absent or <= 0.10, and cache_miss_rate is absent or
\* <= 0.05; the confidence is then high exactly when IPC >= 1.20 and
\* syscall_share is absent or <= 0.05, and medium otherwise.
C7_CpuBound ==
    (Called /\ ~DocMemoryGuard /\ ~DocIoGuard /\ ~DocSyscallGuard) =>
        /\ result.label = "cpu-bound" <=>
              (/\ Derived.has_ipc /\ RatGeq(Derived.ipc, 90, 100)
               /\ (~Derived.has_syscall_share \/ RatLeq(Derived.syscall_share, 10, 100))
               /\ (~Derived.has_cache_miss_rate
                   \/ RatLeq(Derived.cache_miss_rate, 5, 100)))
        /\ result.label = "cpu-bound" =>
              /\ result.confidence = "high" <=>
                    (/\ RatGeq(Derived.ipc, 120, 100)
                     /\ (~Derived.has_syscall_share
                         \/ RatLeq(Derived.syscall_share, 5, 100)))
              /\ result.confidence \in {"high", "medium"}

\* C7 witness: cpu-bound with a cache-miss rate exactly at 0.05 and a syscall
\* share in (0.05, 0.10], hence medium although IPC >= 1.20.
C7_Witness ==
    /\ Called /\ result.label = "cpu-bound" /\ result.confidence = "medium"
    /\ RatGeq(Derived.ipc, 120, 100)
    /\ Derived.has_syscall_share /\ RatGt(Derived.syscall_share, 5, 100)
    /\ Derived.has_cache_miss_rate

\* C8 as stated: the matching rule itself contributes between 2 and 4 evidence
\* entries, before the minimum-evidence step runs.
C8_RuleContributesTwoToFour ==
    Called => (Len(rule_evidence) >= 2 /\ Len(rule_evidence) <= 4)

\* C8 amended: the matching rule itself contributes between 1 and 4 evidence
\* entries; memory-pressure, io-bound and inconclusive always contribute at
\* least 2, syscall-heavy contributes a single entry exactly when no top
\* syscall share is available, and cpu-bound contributes a single entry exactly
\* when syscall_share and cache_miss_rate are both absent.
C8_RuleContributesOneToFour ==
    Called =>
        /\ Len(rule_evidence) >= 1 /\ Len(rule_evidence) <= 4
        /\ result.label \in {"memory-pressure", "io-bound", "inconclusive"} =>
              Len(rule_evidence) >= 2
        /\ result.label = "syscall-heavy" =>
              (Len(rule_evidence) < 2 <=> ~Derived.has_top_syscall_share)
        /\ result.label = "cpu-bound" =>
              (Len(rule_evidence) < 2 <=>
                  (~Derived.has_syscall_share /\ ~Derived.has_cache_miss_rate))

\* C8 witness: syscall-heavy matched on a summary that has a total row but no
\* entries, so the rule contributed the syscall share alone.
C8_Witness ==
    /\ Called /\ result.label = "syscall-heavy" /\ Len(rule_evidence) = 1
    /\ strace.data.entries = <<>>

\* C9 as stated: a derived metric is present only when the collector that
\* supplies it has status ok and its denominator is strictly positive (perf
\* for IPC, cache_miss_rate and page_fault_rate; strace for syscall_share,
\* io_share and top_syscall_share; the process-state sampler for
\* voluntary_switch_rate and max_rss_mb).
C9_PresentOnlyWhenCollectorOk ==
    Called =>
        /\ Derived.has_ipc => (perf.status.status = "ok" /\ perf.data.cycles > 0)
        /\ Derived.has_cache_miss_rate =>
              (perf.status.status = "ok" /\ perf.data.instructions > 0)
        /\ Derived.has_page_fault_rate =>
              (perf.status.status = "ok" /\ workload.wall_time_ms > 0)
        /\ Derived.has_syscall_share =>
              (strace.status.status = "ok" /\ workload.wall_time_ms > 0)
        /\ Derived.has_io_share =>
              (strace.status.status = "ok" /\ strace.data.total_time_ms > 0)
        /\ Derived.has_top_syscall_share =>
              (strace.status.status = "ok" /\ strace.data.total_time_ms > 0)
        /\ Derived.has_voluntary_switch_rate =>
              (workload.proc_collector_status.status = "ok" /\ workload.wall_time_ms > 0)
        /\ Derived.has_max_rss_mb => workload.proc_collector_status.status = "ok"

\* The strings a collector caveat can quote in this model.
QuotableTexts ==
    {""} \cup {st.status : st \in CollectorStatuses} \cup {st.reason : st \in CollectorStatuses}

\* The caveat of one collector is present exactly when its status is not ok,
\* and then quotes the reason, or the status when the reason is empty.
CollectorCaveatExact(prefix, st) ==
    \A q \in QuotableTexts :
        (prefix \o q) \in Range(result.limitations) <=>
            (st.status # "ok" /\ q = (IF st.reason # "" THEN st.reason ELSE st.status))

\* C10: the limitations list has no duplicates; apart from the no-rule
\* limitation of the inconclusive label it holds nothing but the five caveats,
\* each decided by the inputs alone: the emulated-mode caveat exactly when mode
\* is "qemu", each collector's caveat exactly when that collector's status is
\* not ok (quoting its reason, or its status when the reason is empty), and the
\* short-run caveat exactly when 0 < wall_time_sec < 0.05.
C10_Limitations ==
    Called =>
        /\ \A i, j \in 1..Len(result.limitations) :
              i # j => result.limitations[i] # result.limitations[j]
        /\ QemuLimitation \in Range(result.limitations) <=> mode = "qemu"
        /\ CollectorCaveatExact(PerfLimitationPrefix, perf.status)
        /\ CollectorCaveatExact(StraceLimitationPrefix, strace.status)
        /\ CollectorCaveatExact(ProcLimitationPrefix, workload.proc_collector_status)
        /\ ShortRunLimitation \in Range(result.limitations) <=>
              (workload.wall_time_ms > 0 /\ workload.wall_time_ms * 100 < 5 * 1000)
        /\ Range(result.limitations) \subseteq
              ({QemuLimitation, ShortRunLimitation, NoRuleLimitation}
               \cup {pre \o q : pre \in {PerfLimitationPrefix, StraceLimitationPrefix,
                                         ProcLimitationPrefix},
                                q \in QuotableTexts})

\* C10 witness: an emulated short run in which all three collectors are not
\* ok, one of them with an empty reason: all five caveats are listed.
C10_Witness ==
    /\ Called /\ mode = "qemu"
    /\ perf.status.status # "ok" /\ strace.status.status # "ok"
    /\ workload.proc_collector_status.status # "ok"
    /\ workload.proc_collector_status.reason = ""
    /\ workload.wall_time_ms > 0 /\ workload.wall_time_ms < 50
    /\ Len(result.limitations) >= 5

(***************************************************************************)
(* Properties of the collectors and of HandleRun.                          *)
(***************************************************************************)
ToolCollectors == {"perf_stat", "strace_summary"}

ToolResult(c) == IF c = "perf_stat" THEN perf ELSE strace

Statuses == <<workload.proc_collector_status, perf.status, strace.status>>

Failed(st) == st.status \in {"error", "unavailable"}

\* HandleRun has returned after starting its executions.
RanToReturn == run_pc = "returned" /\ invoked["proc_status"] >= 1

\* C11: for both tool-driven collectors, whenever the external time bound
\* trips, the returned outcome has timed_out = true and status = error,
\* whatever the captured output contains; a timed-out collector never reports
\* status ok.
C11_TrippedBoundFixesOutcome ==
    \A c \in ToolCollectors :
        capture[c].tripped =>
            /\ ToolResult(c).timed_out
            /\ ToolResult(c).status.status = "error"

\* C12: when a tool-driven collector times out, the captured output is not
\* fed into the parser: the parsed data is left in its initial empty state (no
\* counter marked present for perf, no entries and no total for strace).
C12_TimedOutDataLeftEmpty ==
    /\ perf.timed_out => perf.data = DefaultPerfStatData
    /\ strace.timed_out => strace.data = DefaultStraceSummaryData

\* C13 as stated: a failure of any single collector never aborts the run:
\* HandleRun still executes the remaining collectors, still produces the run
\* artifact, and returns the monitored workload's exit code.
C13_FailureNeverAborts ==
    (RanToReturn /\ \E i \in 1..3 : Failed(Statuses[i])) =>
        /\ \A c \in Collectors : invoked[c] = 1
        /\ outcome.artifact
        /\ outcome.code = workload.exit_code

\* C13 amended: a failure of a collector never keeps the remaining collectors
\* from being executed; outside strict mode HandleRun then prints its report
\* and returns the workload's exit code, and it writes the artifact exactly
\* when --json names a path (a failed write returns 2 instead); in strict mode
\* the failure makes it return 2 with neither report nor artifact.
C13_FailureAbsorbedOutsideStrict ==
    (RanToReturn /\ \E i \in 1..3 : Failed(Statuses[i])) =>
        /\ \A c \in Collectors : invoked[c] = 1
        /\ IF options.strict
           THEN outcome.code = 2 /\ ~outcome.report /\ ~outcome.artifact
           ELSE /\ outcome.report
                /\ outcome.artifact = (options.json_path # "" /\ host.writable)
                /\ outcome.code = IF options.json_path # "" /\ ~host.writable
                                  THEN 2 ELSE workload.exit_code

C13_Witness ==
    /\ RanToReturn
    /\ ~options.strict
    /\ perf.timed_out
    /\ strace.status.status = "ok"
    /\ workload.proc_collector_status.status = "unavailable"
    /\ outcome.artifact
    /\ outcome.code = workload.exit_code
    /\ workload.exit_code = SignalExitBase + SigKill

RatEq(a, b) == a.n * b.d = b.n * a.d

\* The k-th smallest value of vs, by counting.
KthSmallest(vs, k) ==
    CHOOSE v \in Range(vs) :
        /\ Cardinality({i \in 1..Len(vs) : vs[i] < v}) < k
        /\ Cardinality({i \in 1..Len(vs) : vs[i] <= v}) >= k

DocMedian(vs) ==
    LET n == Len(vs)
    IN  IF n % 2 = 1 THEN Rat(KthSmallest(vs, (n + 1) \div 2), 1)
        ELSE Rat(KthSmallest(vs, n \div 2) + KthSmallest(vs, (n \div 2) + 1), 2)

Rearranged(vs, p) == [i \in 1..Len(vs) |-> vs[p[i]]]

IsRearrangementOf(vs, ws) ==
    /\ Len(vs) = Len(ws)
    /\ \E p \in Permutations(1..Len(ws)) : vs = Rearranged(ws, p)

\* C15: the median of a non-empty list is independent of the order of the
\* input: for an odd count it is the middle element of the ascending sort,
\* for an even count the arithmetic mean of the two middle elements; so
\* [1,2,3] gives 2 and [1,2,3,4] gives 2.5, in whatever order they come.
C15_MedianOrderIndependent ==
    median.returned =>
        /\ RatEq(median.value, DocMedian(median_values))
        /\ \A p \in Permutations(1..Len(median_values)) :
                Median(Rearranged(median_values, p)) = median.value
        /\ IsRearrangementOf(median_values, <<1, 2, 3>>) => RatEq(median.value, Rat(2, 1))
        /\ IsRearrangementOf(median_values, <<1, 2, 3, 4>>) => RatEq(median.value, Rat(5, 2))

C15_Witness ==
    /\ median.returned
    /\ median_values = <<4, 2, 3, 1>>
    /\ median.value = Rat(5, 2)

SameLetter(a, b) ==
    a = b \/ \E k \in 1..Len(UpperCase) : {a, b} = {UpperCase[k], LowerCase[k]}

\* raw is alias in some mix of upper and lower case, with whitespace around it.
Spells(raw, alias) ==
    \E i \in 1..(Len(raw) + 1) :
        LET j == i + Len(alias) - 1
        IN  /\ j <= Len(raw)
            /\ \A k \in 1..Len(raw) : (k < i \/ k > j) => raw[k] \in Whitespace
            /\ \A k \in 1..Len(alias) : SameLetter(raw[i + k - 1], alias[k])

DocAliases ==
    {<<<<"x", "8", "6", "_", "6", "4">>, "x86_64">>,
     <<<<"a", "m", "d", "6", "4">>, "x86_64">>,
     <<<<"x", "6", "4">>, "x86_64">>,
     <<<<"a", "a", "r", "c", "h", "6", "4">>, "aarch64">>,
     <<<<"a", "r", "m", "6", "4">>, "aarch64">>,
     <<<<"r", "i", "s", "c", "v", "6", "4">>, "riscv64">>,
     <<<<"r", "i", "s", "c", "v">>, "riscv64">>,
     <<<<"r", "v", "6", "4">>, "riscv64">>}

DocNormalize(raw) ==
    IF \E pair \in DocAliases : Spells(raw, pair[1])
    THEN Present((CHOOSE pair \in DocAliases : Spells(raw, pair[1]))[2])
    ELSE Absent

CompareReturned == cmp_out.returned

NoRatios == \A c \in CounterNameSet : ~cmp_out.counter_ratios[c][1]

\* The call failed: exit code 2, nothing computed, no artifact written.
FailedWithoutComparing ==
    /\ cmp_out.code = 2
    /\ ~cmp_out.computed
    /\ NoRatios
    /\ ~cmp_out.artifact.written

ListMode ==
    /\ cmp_in.scan = "ok"
    /\ cmp_in.native_paths # <<>>
    /\ cmp_in.qemu_paths # <<>>
    /\ cmp_in.positional_paths = <<>>

PositionalMode ==
    /\ cmp_in.scan = "ok"
    /\ cmp_in.native_paths = <<>>
    /\ cmp_in.qemu_paths = <<>>
    /\ Len(cmp_in.positional_paths) = 2

\* What makes an artifact unacceptable for the bucket it is given for
\* (expected is "" when no bucket is named); "none" when it is acceptable.
DocDefect(file, expected) ==
    IF ~file.readable THEN "unreadable"
    ELSE IF file.kind # Present("run_result") THEN "kind"
    ELSE IF ~file.mode[1] \/ ~file.command[1] \/ ~file.duration[1] THEN "fields"
    ELSE IF expected # "" /\ file.mode[2] # expected THEN "mode"
    ELSE IF file.mode[2] = "qemu" /\ ~file.arch[1] THEN "arch missing"
    ELSE IF file.mode[2] = "qemu" /\ ~DocNormalize(file.arch[2])[1] THEN "arch unsupported"
    ELSE "none"

\* The text that names the field behind each defect.
DocErrorText(file, expected) ==
    LET defect == DocDefect(file, expected)
    IN  CASE defect = "unreadable" -> "unable to read artifact file"
          [] defect = "kind" -> "artifact is not a run_result JSON"
          [] defect = "fields" ->
                "artifact missing one of required fields: mode, command, duration_sec"
          [] defect = "mode" ->
                "expected mode '" \o expected \o "' but got '" \o file.mode[2] \o "'"
          [] defect = "arch missing" -> "qemu run artifact missing qemu.arch"
          [] defect = "arch unsupported" ->
                "unsupported qemu arch '" \o Text(file.arch[2])
                \o "' in artifact; supported: x86_64, aarch64, riscv64"
          [] OTHER -> ""

\* The artifacts in the order they are loaded, each with the bucket it is
\* given for and the words the failure message starts with.
LoadOrder ==
    IF ListMode
    THEN [i \in 1..Len(cmp_in.native_paths) |->
            [file |-> cmp_in.native_paths[i], expected |-> "native",
             prefix |-> "compare: failed to parse native artifact "]]
         \o [i \in 1..Len(cmp_in.qemu_paths) |->
            [file |-> cmp_in.qemu_paths[i], expected |-> "qemu",
             prefix |-> "compare: failed to parse qemu artifact "]]
    ELSE IF PositionalMode
    THEN [i \in 1..2 |->
            [file |-> cmp_in.positional_paths[i], expected |-> "",
             prefix |-> "compare: failed to parse artifact "]]
    ELSE <<>>

Unacceptable == {i \in 1..Len(LoadOrder) : DocDefect(LoadOrder[i].file, LoadOrder[i].expected) # "none"}

\* The buckets of a call whose artifacts are all acceptable.
DocNativeFiles ==
    IF ListMode THEN cmp_in.native_paths
    ELSE SelectSeq(cmp_in.positional_paths, LAMBDA f : f.mode = Present("native"))

DocQemuFiles ==
    IF ListMode THEN cmp_in.qemu_paths
    ELSE SelectSeq(cmp_in.positional_paths, LAMBDA f : f.mode = Present("qemu"))

BucketsLoaded ==
    /\ ListMode \/ PositionalMode
    /\ Unacceptable = {}
    /\ DocNativeFiles # <<>>
    /\ DocQemuFiles # <<>>

DocDurations(files) == [i \in 1..Len(files) |-> files[i].duration[2]]

\* C16: HandleCompare fails (returns 2, computes no ratios and writes no
\* comparison artifact) whenever the native or the qemu median duration is
\* not strictly positive; slowdown and throughput figures are only ever
\* computed with both medians > 0, so no division by zero occurs.
C16_MediansMustBePositive ==
    /\ (CompareReturned /\ BucketsLoaded
        /\ (DocMedian(DocDurations(DocNativeFiles)).n <= 0
            \/ DocMedian(DocDurations(DocQemuFiles)).n <= 0))
            => FailedWithoutComparing
    /\ cmp_out.computed =>
            /\ BucketsLoaded
            /\ cmp_out.native_median.n > 0 /\ cmp_out.native_median.d > 0
            /\ cmp_out.qemu_median.n > 0 /\ cmp_out.qemu_median.d > 0
            /\ cmp_out.slowdown_factor.d > 0
            /\ cmp_out.throughput_ratio.d > 0
            /\ RatEq(cmp_out.slowdown_factor,
                     RatDiv(DocMedian(DocDurations(DocQemuFiles)),
                            DocMedian(DocDurations(DocNativeFiles))))

C16_Witness ==
    /\ CompareReturned
    /\ BucketsLoaded
    /\ DocDurations(DocNativeFiles) = <<3000, 1000>>
    /\ DocDurations(DocQemuFiles) = <<0, -500>>
    /\ cmp_in.json_path # ""
    /\ FailedWithoutComparing
    /\ cmp_out.message = "compare: duration medians must be positive"

\* The values of counter c over the artifacts that expose it.
DocExposed(files, c) ==
    LET exposing == SelectSeq(files, LAMBDA f : f.counters[c][1])
    IN  [i \in 1..Len(exposing) |-> exposing[i].counters[c][2]]

\* The ratio entry of counter c is qemu median / native median over the
\* artifacts exposing c.
RatioIsQemuOverNative(c) ==
    LET q == DocMedian(DocExposed(DocQemuFiles, c))
        n == DocMedian(DocExposed(DocNativeFiles, c))
    IN  cmp_out.counter_ratios[c][2].n * q.d * n.n = q.n * n.d * cmp_out.counter_ratios[c][2].d

\* C17 as stated: for each of the six counters the ratio map has an entry
\* exactly when both buckets have at least one sample exposing the counter and
\* the native median of the counter is not 0; the entry is qemu median /
\* native median, independently of the other counters.
C17_RatioWhenNativeMedianNotZero ==
    cmp_out.computed =>
        \A c \in CounterNameSet :
            /\ cmp_out.counter_ratios[c][1] <=>
                    /\ DocExposed(DocNativeFiles, c) # <<>>
                    /\ DocExposed(DocQemuFiles, c) # <<>>
                    /\ DocMedian(DocExposed(DocNativeFiles, c)).n # 0
            /\ cmp_out.counter_ratios[c][1] => RatioIsQemuOverNative(c)

\* C17 amended: for each of the six counters the ratio map has an entry
\* exactly when both buckets have at least one sample exposing the counter and
\* the native median of the counter is strictly positive (a zero or negative
\* native median leaves the counter out); the entry is qemu median / native
\* median over the samples exposing the counter, independently of the other
\* counters.
C17_RatioWhenNativeMedianPositive ==
    cmp_out.computed =>
        \A c \in CounterNameSet :
            /\ cmp_out.counter_ratios[c][1] <=>
                    /\ DocExposed(DocNativeFiles, c) # <<>>
                    /\ DocExposed(DocQemuFiles, c) # <<>>
                    /\ DocMedian(DocExposed(DocNativeFiles, c)).n > 0
            /\ cmp_out.counter_ratios[c][1] => RatioIsQemuOverNative(c)

C17_Witness ==
    /\ cmp_out.computed
    /\ Len(DocNativeFiles) = 2
    /\ DocExposed(DocNativeFiles, "cycles") = <<200, 100>>
    /\ DocExposed(DocQemuFiles, "cycles") = <<300>>
    /\ cmp_out.counter_ratios["cycles"][1]
    /\ RatEq(cmp_out.counter_ratios["cycles"][2], Rat(2, 1))
    /\ DocExposed(DocNativeFiles, "page_faults") = <<-4>>
    /\ DocExposed(DocQemuFiles, "page_faults") = <<-8>>
    /\ ~cmp_out.counter_ratios["page_faults"][1]
    /\ DocExposed(DocNativeFiles, "cache_misses") = <<5>>
    /\ ~cmp_out.counter_ratios["cache_misses"][1]

ArchLists ==
    {l \in UNION {[1..n -> {"x86_64", "aarch64", "riscv64"}] : n \in 0..3} :
        \A i, j \in 1..Len(l) : i # j => l[i] # l[j]}

DocQemuArchs == {DocNormalize(DocQemuFiles[i].arch[2])[2] : i \in 1..Len(DocQemuFiles)}

HasMultiArchCaveat == \E l \in ArchLists : MultiArchCaveat(l) \in Range(cmp_out.caveats)

\* The characters of a canonical selector.
CanonicalSpelling(name) == (CHOOSE pair \in DocAliases : Text(pair[1]) = name)[1]

\* C19: the multi-architecture caveat is present exactly when the qemu
\* bucket's samples have more than one distinct architecture after
\* normalization.  NormalizeQemuArchSelector maps (case-insensitively, after
\* trimming) x86_64/amd64/x64 to x86_64, aarch64/arm64 to aarch64,
\* riscv64/riscv/rv64 to riscv64 and everything else to absent, and it is
\* idempotent; so amd64 and x86_64 count as one architecture while aarch64
\* together with amd64 produce the caveat.
C19_MultiArchCaveat ==
    /\ cmp_out.computed =>
            /\ HasMultiArchCaveat <=> Cardinality(DocQemuArchs) > 1
            /\ \A l \in ArchLists :
                    MultiArchCaveat(l) \in Range(cmp_out.caveats) => Range(l) = DocQemuArchs
    /\ \A i \in 1..Len(cmp_in.qemu_paths) :
            LET raw == cmp_in.qemu_paths[i].arch
                normalized == NormalizeQemuArchSelector(raw[2])
            IN  raw[1] =>
                    /\ normalized = DocNormalize(raw[2])
                    /\ normalized[1] =>
                            NormalizeQemuArchSelector(CanonicalSpelling(normalized[2]))
                                = normalized

C19_Witness ==
    /\ cmp_out.computed
    /\ Len(cmp_in.qemu_paths) = 3
    /\ cmp_in.qemu_paths[1].arch[2] = <<" ", "A", "A", "r", "c", "h", "6", "4", " ">>
    /\ cmp_in.qemu_paths[2].arch[2] = <<"a", "m", "d", "6", "4">>
    /\ cmp_in.qemu_paths[3].arch[2] = <<"x", "8", "6", "_", "6", "4">>
    /\ cmp_out.caveats[Len(cmp_out.caveats)] =
            "Compared QEMU samples include multiple target architectures: aarch64, x86_64."

HasProtocolCaveat(caveats) ==
    \E n, m \in 1..MaxSamples : ProtocolCaveat(n, m) \in Range(caveats)

\* C20: the caveat list always contains the caveat that wall-clock and
\* throughput are the primary metrics, and it contains the sample-count
\* caveat (naming 1 warm-up plus 5 measured runs and the actual counts)
\* exactly when the native or the qemu bucket size differs from 5; the
\* artifact's uses_recommended_sample_count flag is true exactly when that
\* caveat is absent.
C20_SampleCountCaveat ==
    cmp_out.computed =>
        /\ PrimaryCaveat \in Range(cmp_out.caveats)
        /\ HasProtocolCaveat(cmp_out.caveats) <=>
                (Len(DocNativeFiles) # 5 \/ Len(DocQemuFiles) # 5)
        /\ \A n, m \in 1..MaxSamples :
                ProtocolCaveat(n, m) \in Range(cmp_out.caveats) =>
                    n = Len(DocNativeFiles) /\ m = Len(DocQemuFiles)
        /\ cmp_out.artifact.written =>
                /\ cmp_out.artifact.caveats = cmp_out.caveats
                /\ cmp_out.artifact.uses_recommended_sample_count \in {"true", "false"}
                /\ cmp_out.artifact.uses_recommended_sample_count = "true"
                        <=> ~HasProtocolCaveat(cmp_out.artifact.caveats)

C20_Witness ==
    /\ cmp_out.computed
    /\ cmp_out.artifact.written
    /\ Len(DocNativeFiles) = 5
    /\ Len(DocQemuFiles) = 3
    /\ cmp_out.artifact.uses_recommended_sample_count = "false"
    /\ cmp_out.artifact.caveats[2] =
            "Protocol note: Section 4 recommends 1 warm-up plus 5 measured runs per mode; "
            \o "provided native=5, qemu=3."

(***************************************************************************)
(* Properties of the parsers.                                              *)
(***************************************************************************)
ParserReturned(parser) == parse_out.returned /\ parse_in.parser = parser

\* A plain numeral: digits with at most one decimal point.
DocIsNumeral(value) ==
    /\ \E i \in 1..Len(value) : IsDigit(value[i])
    /\ \A i \in 1..Len(value) : IsDigit(value[i]) \/ value[i] = "."
    /\ Count(value, ".") <= 1

\* A counter row of event: at least three fields, a numeral in the first, the
\* event's name in the third.
DocCounterRow(row, event) ==
    LET fields == SplitCsv(row)
    IN  /\ Len(fields) >= 3
        /\ DocIsNumeral(Trim(fields[1]))
        /\ Text(Trim(fields[3])) = event

DocRowValue(row) == Stod(Trim(SplitCsv(row)[1]))[2]

HasCounter(data, event) ==
    CASE event = "cycles" -> data.has_cycles
      [] event = "instructions" -> data.has_instructions
      [] event = "branches" -> data.has_branches
      [] event = "branch-misses" -> data.has_branch_misses
      [] event = "cache-misses" -> data.has_cache_misses
      [] event = "page-faults" -> data.has_page_faults

CounterValue(data, event) ==
    CASE event = "cycles" -> data.cycles
      [] event = "instructions" -> data.instructions
      [] event = "branches" -> data.branches
      [] event = "branch-misses" -> data.branch_misses
      [] event = "cache-misses" -> data.cache_misses
      [] event = "page-faults" -> data.page_faults

\* The text has one counter row for each of the six events; every other row
\* names no recognized event or is malformed.
OneCounterRowEach(text) ==
    \A event \in PerfEvents :
        Cardinality({i \in 1..Len(text) : DocCounterRow(text[i], event)}) = 1

\* C21: for every counter-CSV input that contains a valid row for each of the
\* six recognized event names, ParsePerfStatCsvOutput returns success with all
\* six presence flags true and each value equal to its row's value, whatever
\* the order of the rows and whatever unrecognized or malformed rows are
\* interleaved; event-name matching is exact and case-sensitive.
C21_AllSixCountersRead ==
    (ParserReturned("ParsePerfStatCsvOutput") /\ OneCounterRowEach(parse_in.text)) =>
        /\ parse_out.parsed_any
        /\ \A event \in PerfEvents :
            LET row == parse_in.text[CHOOSE i \in 1..Len(parse_in.text) :
                                        DocCounterRow(parse_in.text[i], event)]
            IN  /\ HasCounter(parse_out.perf, event)
                /\ RatEq(CounterValue(parse_out.perf, event), DocRowValue(row))

\* A token that is a decimal integer.
DocIsInteger(token) ==
    /\ token # <<>>
    /\ \A i \in 1..Len(token) : IsDigit(token[i])

\* A token that is a time in seconds: digits around one point or comma.
DocIsTime(token) ==
    /\ \E i \in 1..Len(token) : IsDigit(token[i])
    /\ \A i \in 1..Len(token) : IsDigit(token[i]) \/ token[i] \in {".", ","}
    /\ Count(token, ".") + Count(token, ",") <= 1

DocTimeMs(token) ==
    LET seconds == Stod(Replace(token, ",", "."))[2]
    IN  Rat(seconds.n * 1000, seconds.d)

\* A row the parser is documented to read: at least 5 tokens, a time in
\* token[1].
DocAcceptedRow(line) ==
    LET tokens == SplitWhitespace(line)
    IN  Len(tokens) >= 5 /\ DocIsTime(tokens[2])

DocTotalRow(line) ==
    LET tokens == SplitWhitespace(line)
    IN  DocAcceptedRow(line) /\ Text(tokens[Len(tokens)]) = "total"

DocDataRow(line) ==
    LET tokens == SplitWhitespace(line)
    IN  /\ DocAcceptedRow(line)
        /\ Text(tokens[Len(tokens)]) # "total"
        /\ DocIsInteger(tokens[4])

DocEntry(line) ==
    LET tokens == SplitWhitespace(line)
    IN  [name |-> Text(tokens[Len(tokens)]),
         calls |-> DecimalValue(tokens[4]),
         time_ms |-> DocTimeMs(tokens[2]),
         errors |-> IF Len(tokens) = 5 THEN 0
                    ELSE IF DocIsInteger(tokens[5]) THEN DecimalValue(tokens[5])
                    ELSE 0]

\* C22: the entries list of the syscall summary parser is exactly the accepted
\* non-total data rows in input order (never re-sorted): a data row with
\* exactly 5 whitespace tokens yields errors = 0, a row with 6 tokens yields
\* errors = the integer in token[4] (0 if it does not parse), and a row whose
\* last token is "total" sets total_time_sec and never adds an entry.
C22_EntriesAreDataRowsInOrder ==
    ParserReturned("ParseStraceSummaryOutput") =>
        LET rows == SelectSeq(parse_in.text, DocDataRow)
            totals == SelectSeq(parse_in.text, DocTotalRow)
            entries == parse_out.strace.entries
        IN  /\ Len(entries) = Len(rows)
            /\ \A i \in 1..Len(rows) :
                /\ entries[i].name = DocEntry(rows[i]).name
                /\ entries[i].calls = DocEntry(rows[i]).calls
                /\ entries[i].errors = DocEntry(rows[i]).errors
                /\ RatEq(entries[i].time_ms, DocEntry(rows[i]).time_ms)
            /\ \A i \in 1..Len(entries) : entries[i].name # "total"
            /\ parse_out.strace.has_total_time <=> totals # <<>>
            /\ totals # <<>> =>
                RatEq(parse_out.strace.total_time_ms,
                      DocTimeMs(SplitWhitespace(totals[Len(totals)])[2]))
            /\ parse_out.parsed_any <=> (rows # <<>> \/ totals # <<>>)

C22_Witness ==
    /\ ParserReturned("ParseStraceSummaryOutput")
    /\ Len(parse_in.text) = 3
    /\ Len(SplitWhitespace(parse_in.text[1])) = 6 /\ DocTotalRow(parse_in.text[1])
    /\ Len(SplitWhitespace(parse_in.text[2])) = 6 /\ DocDataRow(parse_in.text[2])
    /\ Len(SplitWhitespace(parse_in.text[3])) = 5 /\ DocDataRow(parse_in.text[3])
    /\ Len(parse_out.strace.entries) = 2
    /\ parse_out.strace.entries[1].name = "write"
    /\ parse_out.strace.entries[1].errors = 3
    /\ parse_out.strace.entries[2].name = "read"
    /\ parse_out.strace.entries[2].errors = 0
    /\ RatEq(parse_out.strace.entries[1].time_ms, Rat(200, 1))
    /\ RatEq(parse_out.strace.total_time_ms, Rat(700, 1))

\* Whether exactly three digits follow the last comma of value.
DocThreeDigitsFollowLastComma(value) ==
    \E i \in 1..Len(value) :
        /\ value[i] = ","
        /\ Len(value) = i + 3
        /\ \A j \in (i + 1)..Len(value) : IsDigit(value[j])

\* The documented canonical form of a value (spaces already stripped).
DocCanonicalize(value) ==
    IF Count(value, ",") > 0 /\ Count(value, ".") = 0
    THEN IF Count(value, ",") >= 2 \/ DocThreeDigitsFollowLastComma(value)
         THEN Erase(value, ",")
         ELSE Replace(value, ",", ".")
    ELSE IF Count(value, ",") > 0 THEN Erase(value, ",")
    ELSE value

\* What is read from a canonical form.
DocRead(canonical) ==
    LET cleaned == SelectSeq(canonical, LAMBDA ch : IsDigit(ch) \/ ch \in NumericCharacters)
    IN  IF cleaned = <<>> THEN NoNumber ELSE Stod(cleaned)

\* C23: the counter parser's canonicalization of a value with commas and no
\* dot removes the commas when there are at least 2 commas or exactly 3 digits
\* follow the last comma, and otherwise replaces the single comma by a decimal
\* point: "1,234" parses to 1234 and "1,23" parses to 1.23; with both commas
\* and a dot present, the commas are removed.
C23_ThousandsOrDecimalComma ==
    ParserReturned("ParseNumericCounter") =>
        LET value == Erase(Trim(parse_in.text), " ")
            expected == DocRead(DocCanonicalize(value))
        IN  /\ parse_out.value[1] = expected[1]
            /\ expected[1] => RatEq(parse_out.value[2], expected[2])
            /\ parse_in.text = <<"1", ",", "2", "3", "4">> =>
                    RatEq(parse_out.value[2], Rat(1234, 1))
            /\ parse_in.text = <<"1", ",", "2", "3">> =>
                    RatEq(parse_out.value[2], Rat(123, 100))

(***************************************************************************)
(* Properties of RunWithProcSampling.                                      *)
(***************************************************************************)
\* The snapshots that were read successfully, in order of reading.
SnapshotsSeen ==
    LET reads == SelectSeq(samp_log, LAMBDA e : e.op # "check" /\ e.snap.readable)
    IN  [i \in 1..Len(reads) |-> reads[i].snap]

\* The positions of the snapshots seen that carried a field.
Carrying(field) == {i \in 1..Len(SnapshotsSeen) : SnapshotsSeen[i][field][1]}

Latest(field) ==
    SnapshotsSeen[CHOOSE i \in Carrying(field) : \A j \in Carrying(field) : i >= j][field][2]

\* C24: after any sequence of process-state snapshots folded within one run,
\* max_rss_kb is present exactly when some snapshot carried a parseable VmRSS
\* and then equals the maximum of all VmRSS values seen (it never decreases),
\* while each context-switch counter equals the value from the most recent
\* snapshot that carried it (a later smaller value overwrites an earlier
\* larger one).
C24_PeakRssAndLatestSwitches ==
    LET sample == samp_result.proc_sample
    IN  /\ sample.has_max_rss_kb <=> Carrying("rss") # {}
        /\ sample.has_max_rss_kb =>
            /\ \E i \in Carrying("rss") : sample.max_rss_kb = SnapshotsSeen[i].rss[2]
            /\ \A i \in Carrying("rss") : sample.max_rss_kb >= SnapshotsSeen[i].rss[2]
        /\ sample.has_voluntary_ctxt_switches <=> Carrying("vol") # {}
        /\ sample.has_voluntary_ctxt_switches =>
            sample.voluntary_ctxt_switches = Latest("vol")
        /\ sample.has_nonvoluntary_ctxt_switches <=> Carrying("nonvol") # {}
        /\ sample.has_nonvoluntary_ctxt_switches =>
            sample.nonvoluntary_ctxt_switches = Latest("nonvol")

C24_Witness ==
    /\ samp_pc = "returned"
    /\ Len(SnapshotsSeen) = 3
    /\ SnapshotsSeen[1].rss = <<TRUE, 100>> /\ SnapshotsSeen[1].vol = <<TRUE, 5>>
    /\ SnapshotsSeen[2].rss = <<TRUE, 80>> /\ SnapshotsSeen[2].vol = <<TRUE, 3>>
    /\ ~SnapshotsSeen[2].nonvol[1]
    /\ ~SnapshotsSeen[3].rss[1] /\ SnapshotsSeen[3].vol = <<TRUE, 9>>
    /\ samp_result.proc_sample.max_rss_kb = 100
    /\ samp_result.proc_sample.voluntary_ctxt_switches = 9
    /\ samp_result.proc_sample.nonvoluntary_ctxt_switches = 2

SamplingReturned == samp_pc = "returned"

LastCheck ==
    LET checks == SelectSeq(samp_log, LAMBDA e : e.op = "check")
    IN  IF checks = <<>> THEN "" ELSE checks[Len(checks)].wait_result

FinalReads == Cardinality({i \in 1..Len(samp_log) : samp_log[i].op = "final_read"})

\* C25: the polling loop is left only by (a) the non-blocking exit check
\* reporting the child exited, after which exactly one further snapshot read
\* is attempted before the result is finalized, or (b) the exit check itself
\* failing, in which case the result has exit_classification wait_error,
\* exit_code 2, sampler status error, a recorded wall time, and no further
\* snapshot is read; in every iteration the snapshot read precedes the exit
\* check.
C25_LoopExits ==
    /\ \A i \in 1..Len(samp_log) :
        /\ samp_log[i].op = "check" => (i > 1 /\ samp_log[i - 1].op = "read")
        /\ (samp_log[i].op = "read" /\ i > 1) =>
                (samp_log[i - 1].op = "check" /\ samp_log[i - 1].wait_result = "running")
        /\ samp_log[i].op = "final_read" =>
                (i > 1 /\ samp_log[i - 1].op = "check"
                       /\ samp_log[i - 1].wait_result = "exited")
        /\ (samp_log[i].op = "check" /\ samp_log[i].wait_result = "failed") =>
                i = Len(samp_log)
    /\ samp_pc \in {"read", "check"} => LastCheck \in {"", "running"}
    /\ samp_pc = "final_read" => (LastCheck = "exited" /\ FinalReads = 0)
    /\ (SamplingReturned /\ samp_log # <<>>) =>
        \/ /\ LastCheck = "exited"
           /\ FinalReads = 1
           /\ samp_log[Len(samp_log)].op = "final_read"
           /\ samp_result.exit_classification # "wait_error"
        \/ /\ LastCheck = "failed"
           /\ FinalReads = 0
           /\ samp_result.exit_classification = "wait_error"
           /\ samp_result.exit_code = 2
           /\ samp_result.proc_collector_status.status = "error"
           /\ samp_result.wall_time_ms = WallMs

C25_Witness ==
    /\ SamplingReturned
    /\ Len(samp_log) = 4
    /\ samp_log[2].wait_result = "running"
    /\ samp_log[3].op = "read" /\ samp_log[3].snap.readable
    /\ samp_log[4].wait_result = "failed"
    /\ samp_result.exit_classification = "wait_error"
    /\ samp_result.proc_sample.has_max_rss_kb

\* C27: when RunWithProcSampling observes the child exited, the sampler status
\* is ok exactly when at least one snapshot read (during polling or the final
\* read after exit) succeeded, and unavailable otherwise; on that path
\* exit_classification is one of exit_code, signal or unknown, and a
\* signal-terminated child yields exit_code 128 + signal number.
C27_SamplerStatusAfterExit ==
    (SamplingReturned /\ LastCheck = "exited") =>
        /\ samp_result.proc_collector_status.status =
                IF SnapshotsSeen # <<>> THEN "ok" ELSE "unavailable"
        /\ samp_result.exit_classification \in {"exit_code", "signal", "unknown"}
        /\ samp_locals.wait_status.kind = "signaled" =>
                /\ samp_result.exit_classification = "signal"
                /\ samp_result.exit_code = 128 + samp_locals.wait_status.n
        /\ samp_locals.wait_status.kind = "exited" =>
                /\ samp_result.exit_classification = "exit_code"
                /\ samp_result.exit_code = samp_locals.wait_status.n

C27_Witness ==
    /\ SamplingReturned
    /\ LastCheck = "exited"
    /\ Len(samp_log) = 3
    /\ ~samp_log[1].snap.readable
    /\ samp_log[3].snap.readable
    /\ samp_result.proc_collector_status.status = "ok"
    /\ samp_locals.wait_status.kind = "signaled"
    /\ samp_result.exit_code = 137

\* C28: under the assumption that the child process eventually exits and that
\* each poll step is eventually taken, the polling loop of RunWithProcSampling
\* eventually terminates and returns a finalized result; it cannot return
\* while the child is still running unless the exit check failed.
C28_LoopTerminates ==
    /\ (samp_pc \in {"read", "check", "final_read"}) ~> SamplingReturned
    /\ [](SamplingReturned =>
            /\ samp_result.wall_time_ms = WallMs \/ samp_log = <<>>
            /\ child = "running" => samp_result.exit_classification = "wait_error")

C28_Witness ==
    /\ SamplingReturned
    /\ child = "reaped"
    /\ Checks = MaxPolls + 1
    /\ samp_result.exit_classification = "exit_code"

(***************************************************************************)
(* Properties of HandleRun in strict mode.                                 *)
(***************************************************************************)
\* The strict preflight as documented: the host is not Linux, or perf or
\* strace is missing from PATH.
DocPreflightFails == ~host.linux \/ ~host.has_perf \/ ~host.has_strace

StrictRun == run_pc # "idle" /\ options.scan = "ok" /\ options.strict

\* C29: in strict mode HandleRun returns 2 without writing the run artifact
\* whenever any of the three collector statuses is not ok after all three
\* executions have run; and when the strict preflight fails it returns 2
\* before any workload execution is started.
C29_StrictModeFailsHard ==
    /\ (StrictRun /\ RanToReturn /\ \E i \in 1..3 : Statuses[i].status # "ok") =>
            /\ \A c \in Collectors : invoked[c] = 1
            /\ outcome.returned
            /\ outcome.code = 2
            /\ ~outcome.artifact
    /\ (StrictRun /\ DocPreflightFails) =>
            /\ run_pc = "returned"
            /\ outcome.returned
            /\ outcome.code = 2
            /\ ~outcome.artifact
            /\ \A c \in Collectors : invoked[c] = 0
            /\ alive = {}

\* A strict run on a machine passing the preflight, with a json path, whose
\* perf replay failed after the other two collectors succeeded.
C29_Witness ==
    /\ StrictRun
    /\ RanToReturn
    /\ ~DocPreflightFails
    /\ options.json_path # ""
    /\ host.writable
    /\ workload.proc_collector_status.status = "ok"
    /\ perf.status.status = "error"
    /\ strace.status.status = "ok"
    /\ outcome.code = 2
    /\ ~outcome.artifact

(***************************************************************************)
(* Properties of DiagnoseRun across the collector statuses and between the *)
(* syscall thresholds.                                                     *)
(***************************************************************************)
\* C26: if the perf collector's status is not ok, DiagnoseRun never returns
\* cpu-bound and never returns memory-pressure with confidence high; if the
\* strace collector's status is not ok, DiagnoseRun never returns io-bound or
\* syscall-heavy.
C26_UnusableCollectorBoundsVerdict ==
    Called =>
        /\ perf.status.status # "ok" =>
                /\ result.label # "cpu-bound"
                /\ ~(result.label = "memory-pressure" /\ result.confidence = "high")
        /\ strace.status.status # "ok" =>
                result.label \notin {"io-bound", "syscall-heavy"}

\* Both collectors failed while carrying data that would cross the io-bound
\* thresholds and the high page-fault threshold; the verdict is
\* memory-pressure with confidence medium.
C26_Witness ==
    /\ Called
    /\ perf.status.status # "ok"
    /\ strace.status.status # "ok"
    /\ perf.data.has_page_faults
    /\ perf.data.page_faults * 1000 >= 2000 * workload.wall_time_ms
    /\ workload.wall_time_ms > 0
    /\ strace.data.has_total_time
    /\ strace.data.total_time_ms * 100 >= 15 * workload.wall_time_ms
    /\ result.label = "memory-pressure"
    /\ result.confidence = "medium"

\* syscall_share lies strictly between the cpu-bound maximum and the
\* syscall-heavy minimum.
DocDeadBand ==
    /\ Derived.has_syscall_share
    /\ RatGt(Derived.syscall_share, 10, 100)
    /\ RatLt(Derived.syscall_share, 15, 100)

\* C30: whenever the memory-pressure guard is false and syscall_share is
\* present with 0.10 < syscall_share < 0.15, DiagnoseRun returns inconclusive
\* with confidence low, however high IPC is and whatever io_share and
\* cache_miss_rate are.
C30_DeadBand ==
    (Called /\ ~DocMemoryGuard /\ DocDeadBand) =>
        /\ result.label = "inconclusive"
        /\ result.confidence = "low"

\* A call in the dead band whose IPC, io_share and cache_miss_rate would
\* each satisfy the high-confidence conditions of cpu-bound and io-bound.
C30_Witness ==
    /\ Called
    /\ ~DocMemoryGuard
    /\ DocDeadBand
    /\ Derived.has_ipc /\ RatGeq(Derived.ipc, 120, 100)
    /\ Derived.has_io_share /\ RatGeq(Derived.io_share, 75, 100)
    /\ Derived.has_cache_miss_rate /\ RatLeq(Derived.cache_miss_rate, 5, 100)
    /\ result.label = "inconclusive"

====
